---- MODULE Spec2Model ----
(***************************************************************************)
(* Race-entry page (HomePage) of the SailingResults front end: the roster  *)
(* reconciliation functions (class lookup, name suggestions, roster boat   *)
(* index, boats / lookup / dropdown partition for a name pair) and the     *)
(* entry-row grid with its row-update propagation; the member profile     *)
(* page (ProfilePage) with its session, profile fetches and saves; the    *)
(* series admin page (SeriesAdminPage) with its inline edit session; the  *)
(* scoring request of HomePage and the crew fields of the sign-on portal  *)
(* (PortalPage).                                                           *)
(*                                                                         *)
(* A JavaScript string is a sequence of one-character strings, so that     *)
(* trim, toUpperCase, toLowerCase and template-literal concatenation are   *)
(* computed and not assumed.  A missing (undefined / null) property of a   *)
(* record is an absent field.                                              *)
(***************************************************************************)
EXTENDS Integers, Sequences, FiniteSets, TLC

VARIABLES
    classOptions,       \* reference?.classOptions ?? []
    rosterProfiles,     \* rosterData?.profiles ?? []
    classLookupMaps,    \* useMemo over classOptions: { byKey, byLabel }
    rosterNameBoatMap,  \* useMemo over classLookupMaps and rosterProfiles
    rows,               \* useState<EntryRow[]>
    results,            \* useState<ScoreResponse | null>
    errorMessage,       \* useState<string | null>
    selectedScheduleId, \* useState<string>
    isScoring,          \* useState(false)
    scoreRequest,       \* the POST /score not yet answered: its payload
    lastOp,             \* the handler that ran last, with its arguments
    call,               \* the last call of a roster function and its result
    \* ProfilePage
    session,            \* useState<Session | null>: the user id, or Null
    dateOfBirth,        \* useState<string>
    gender,             \* useState<GenderValue>
    profilePageBoats,   \* useState<BoatEntry[]> (boats of ProfilePage)
    profileMessage,     \* useState<string | null>
    profileError,       \* useState<string | null>
    profileBusy,        \* useState(false)
    profileLoaded,      \* useState(false)
    profileSchemaIssue, \* useState<string | null>
    inFlight,           \* promises not yet settled, by kind
    lastUpsert,         \* the records sent to the store by upsert: the last one
    \* SeriesAdminPage
    editingId,          \* useState<string | null>
    editForm,           \* useState<EditFormState>
    editError,          \* useState<string | null>
    editSuccess,        \* useState<string | null>
    isSavingEdit,       \* useState(false)
    patchesInFlight,    \* PATCH requests not yet answered
    resetTimers,        \* setTimeout(resetEditState, 1500) not yet fired
    editSession,        \* the number of edit sessions opened so far
    \* PortalPage
    portalHelmName,     \* useState<string>("") (helmName of PortalPage)
    crewInputs,         \* useState<string[]>([""])
    signOutsInFlight    \* supabase.auth.signOut() calls not yet settled

homeVars ==
    <<classOptions, rosterProfiles, classLookupMaps, rosterNameBoatMap,
      rows, results, errorMessage, selectedScheduleId, isScoring,
      scoreRequest, lastOp, call>>

profileVars ==
    <<session, dateOfBirth, gender, profilePageBoats, profileMessage,
      profileError, profileBusy, profileLoaded, profileSchemaIssue,
      inFlight, lastUpsert>>

seriesVars ==
    <<editingId, editForm, editError, editSuccess, isSavingEdit,
      patchesInFlight, resetTimers, editSession>>

portalVars == <<portalHelmName, crewInputs, signOutsInFlight>>

vars == <<homeVars, profileVars, seriesVars, portalVars>>

\* What the scoring and scheduling controls of the page hold.
scoreVars ==
    <<results, errorMessage, selectedScheduleId, isScoring, scoreRequest>>

Null == "null"

-----------------------------------------------------------------------------
(* Strings *)

LowerLetters ==
    <<"a","b","c","d","e","f","g","h","i","j","k","l","m",
      "n","o","p","q","r","s","t","u","v","w","x","y","z">>

UpperLetters ==
    <<"A","B","C","D","E","F","G","H","I","J","K","L","M",
      "N","O","P","Q","R","S","T","U","V","W","X","Y","Z">>

WhiteSpace == {" ", "\t"}

UpperOf ==
    [c \in {LowerLetters[i] : i \in DOMAIN LowerLetters} |->
        UpperLetters[CHOOSE i \in DOMAIN LowerLetters : LowerLetters[i] = c]]

LowerOf ==
    [c \in {UpperLetters[i] : i \in DOMAIN UpperLetters} |->
        LowerLetters[CHOOSE i \in DOMAIN UpperLetters : UpperLetters[i] = c]]

toUpperCaseChar(c) == IF c \in DOMAIN UpperOf THEN UpperOf[c] ELSE c

toLowerCaseChar(c) == IF c \in DOMAIN LowerOf THEN LowerOf[c] ELSE c

toUpperCase(s) == [i \in 1..Len(s) |-> toUpperCaseChar(s[i])]

toLowerCase(s) == [i \in 1..Len(s) |-> toLowerCaseChar(s[i])]

RECURSIVE trimStart(_)
trimStart(s) ==
    IF s # <<>> /\ Head(s) \in WhiteSpace THEN trimStart(Tail(s)) ELSE s

RECURSIVE trimEnd(_)
trimEnd(s) ==
    IF s # <<>> /\ s[Len(s)] \in WhiteSpace
    THEN trimEnd(SubSeq(s, 1, Len(s) - 1))
    ELSE s

trim(s) == trimEnd(trimStart(s))

\* (record.field ?? ""): a missing or null string property reads as "".
orEmpty(record, field) ==
    IF field \in DOMAIN record THEN record[field] ELSE <<>>

\* (profile.boats) under the guard !boats?.length: missing reads as no boats.
orNone(record, field) ==
    IF field \in DOMAIN record THEN record[field] ELSE <<>>

-----------------------------------------------------------------------------
(* Class lookup: byKey and byLabel, later options overwrite earlier ones *)

canonicalKeyOf(option) == toUpperCase(trim(option.key))

canonicalLabelOf(option) == toUpperCase(trim(option.label))

\* The value of the classLookupMaps memo for a list of options.
buildClassLookupMaps(options) ==
    LET lastWith(canon(_), k) ==
            CHOOSE i \in DOMAIN options :
                /\ canon(options[i]) = k
                /\ \A j \in DOMAIN options : j > i => canon(options[j]) # k
    IN  [byKey |->
            [k \in {canonicalKeyOf(options[i]) : i \in DOMAIN options}
                |-> options[lastWith(canonicalKeyOf, k)]],
         byLabel |->
            [k \in {canonicalLabelOf(options[i]) : i \in DOMAIN options}
                |-> options[lastWith(canonicalLabelOf, k)]]]

-----------------------------------------------------------------------------
(* Name suggestions *)

\* Rank of a character under localeCompare with sensitivity "base": white
\* space, then punctuation, then digits, then letters without regard to case.
CollationOrder ==
    <<" ", "\t", "|", "#", "0","1","2","3","4","5","6","7","8","9">>
    \o LowerLetters

collationRank(c) ==
    LET l == toLowerCaseChar(c)
    IN  IF \E i \in DOMAIN CollationOrder : CollationOrder[i] = l
        THEN CHOOSE i \in DOMAIN CollationOrder : CollationOrder[i] = l
        ELSE Len(CollationOrder) + 1

\* a.localeCompare(b, undefined, { sensitivity: "base" }) < 0, = 0, > 0
RECURSIVE localeCompare(_, _)
localeCompare(a, b) ==
    IF a = <<>> /\ b = <<>> THEN 0
    ELSE IF a = <<>> THEN -1
    ELSE IF b = <<>> THEN 1
    ELSE IF collationRank(Head(a)) < collationRank(Head(b)) THEN -1
    ELSE IF collationRank(Head(a)) > collationRank(Head(b)) THEN 1
    ELSE localeCompare(Tail(a), Tail(b))

\* Array.prototype.sort with that comparator (stable).
RECURSIVE insertSorted(_, _)
insertSorted(sorted, name) ==
    IF sorted = <<>> THEN <<name>>
    ELSE IF localeCompare(name, sorted[Len(sorted)]) >= 0
         THEN Append(sorted, name)
         ELSE Append(insertSorted(SubSeq(sorted, 1, Len(sorted) - 1), name),
                     sorted[Len(sorted)])

\* sortNames leaving the names in scan order.
sortNamesKeepingScanOrder(names) == names

RECURSIVE sortNames(_)
sortNames(names) ==
    IF names = <<>> THEN <<>>
    ELSE insertSorted(sortNames(SubSeq(names, 1, Len(names) - 1)),
                      names[Len(names)])

\* addName with the seen set keyed by the name as spelled.
addNameCaseSensitive(acc, name) ==
    LET trimmed == trim(name)
    IN  IF trimmed = <<>> THEN acc
        ELSE IF trimmed \in acc[1] THEN acc
        ELSE <<acc[1] \cup {trimmed}, Append(acc[2], trimmed)>>

\* addName: the accumulator is <<seen, names>>.
addName(acc, name) ==
    LET trimmed == trim(name)
        key == toLowerCase(trimmed)
    IN  IF trimmed = <<>> THEN acc
        ELSE IF key \in acc[1] THEN acc
        ELSE <<acc[1] \cup {key}, Append(acc[2], trimmed)>>

RECURSIVE collectNames(_, _, _)
collectNames(profiles, i, acc) ==
    IF i > Len(profiles) THEN acc
    ELSE collectNames(profiles, i + 1,
            addName(addName(acc, orEmpty(profiles[i], "helm")),
                    orEmpty(profiles[i], "crew")))

\* HomePage
rosterNameOptions == sortNames(collectNames(rosterProfiles, 1, <<{}, <<>>>>)[2])

\* PortalPage: the same scan written as a nested forEach over [helm, crew].
RECURSIVE portalCollectNames(_, _, _, _)
portalCollectNames(profiles, i, j, acc) ==
    IF i > Len(profiles) THEN acc
    ELSE IF j > 2 THEN portalCollectNames(profiles, i + 1, 1, acc)
    ELSE LET value == orEmpty(profiles[i], IF j = 1 THEN "helm" ELSE "crew")
             name == trim(value)
             key == toLowerCase(name)
         IN  IF name = <<>> \/ key \in acc[1]
             THEN portalCollectNames(profiles, i, j + 1, acc)
             ELSE portalCollectNames(profiles, i, j + 1,
                      <<acc[1] \cup {key}, Append(acc[2], name)>>)

portalRosterNameOptions ==
    sortNames(portalCollectNames(rosterProfiles, 1, 1, <<{}, <<>>>>)[2])

-----------------------------------------------------------------------------
(* Roster boat index *)

\* `${classKey}|${sailNumber}`
dedupeKeyOf(classKey, sailNumber) == classKey \o <<"|">> \o sailNumber

\* normaliseBoat skipping a boat whose class resolves to no option.
normaliseBoatDroppingUnmatched(maps, acc, boat) ==
    LET className == trim(orEmpty(boat, "className"))
        sailNumber == trim(orEmpty(boat, "sailNumber"))
        canonical == toUpperCase(className)
        byKey == maps.byKey
        byLabel == maps.byLabel
        found == canonical \in DOMAIN byKey \/ canonical \in DOMAIN byLabel
        option == IF canonical \in DOMAIN byKey THEN byKey[canonical]
                  ELSE byLabel[canonical]
        classKey == toUpperCase(option.key)
        dedupeKey == dedupeKeyOf(classKey, sailNumber)
    IN  IF className = <<>> \/ ~found THEN acc
        ELSE IF dedupeKey \in acc[1] THEN acc
        ELSE <<acc[1] \cup {dedupeKey},
               Append(acc[2], [classKey |-> classKey, label |-> option.label,
                               sailNumber |-> sailNumber])>>

\* normaliseBoat without the test of the class name.
normaliseBoatKeepingClassless(maps, acc, boat) ==
    LET className == trim(orEmpty(boat, "className"))
        sailNumber == trim(orEmpty(boat, "sailNumber"))
        canonical == toUpperCase(className)
        byKey == maps.byKey
        byLabel == maps.byLabel
        found == canonical \in DOMAIN byKey \/ canonical \in DOMAIN byLabel
        option == IF canonical \in DOMAIN byKey THEN byKey[canonical]
                  ELSE byLabel[canonical]
        classKey == toUpperCase(IF found THEN option.key ELSE canonical)
        label == IF found THEN option.label ELSE className
        dedupeKey == dedupeKeyOf(classKey, sailNumber)
    IN  IF dedupeKey \in acc[1] THEN acc
        ELSE <<acc[1] \cup {dedupeKey},
               Append(acc[2], [classKey |-> classKey, label |-> label,
                               sailNumber |-> sailNumber])>>

\* normaliseBoat taking the class key as it is written, without
\* upper-casing it.
normaliseBoatKeyAsWritten(maps, acc, boat) ==
    LET className == trim(orEmpty(boat, "className"))
        sailNumber == trim(orEmpty(boat, "sailNumber"))
        canonical == toUpperCase(className)
        byKey == maps.byKey
        byLabel == maps.byLabel
        found == canonical \in DOMAIN byKey \/ canonical \in DOMAIN byLabel
        option == IF canonical \in DOMAIN byKey THEN byKey[canonical]
                  ELSE byLabel[canonical]
        classKey == IF found THEN option.key ELSE className
        label == IF found THEN option.label ELSE className
        dedupeKey == dedupeKeyOf(classKey, sailNumber)
    IN  IF className = <<>> THEN acc
        ELSE IF dedupeKey \in acc[1] THEN acc
        ELSE <<acc[1] \cup {dedupeKey},
               Append(acc[2], [classKey |-> classKey, label |-> label,
                               sailNumber |-> sailNumber])>>

\* normaliseBoat asking byLabel before byKey.
normaliseBoatLabelFirst(maps, acc, boat) ==
    LET className == trim(orEmpty(boat, "className"))
        sailNumber == trim(orEmpty(boat, "sailNumber"))
        canonical == toUpperCase(className)
        byKey == maps.byKey
        byLabel == maps.byLabel
        found == canonical \in DOMAIN byKey \/ canonical \in DOMAIN byLabel
        option == IF canonical \in DOMAIN byLabel THEN byLabel[canonical]
                  ELSE byKey[canonical]
        classKey == toUpperCase(IF found THEN option.key ELSE canonical)
        label == IF found THEN option.label ELSE className
        dedupeKey == dedupeKeyOf(classKey, sailNumber)
    IN  IF className = <<>> THEN acc
        ELSE IF dedupeKey \in acc[1] THEN acc
        ELSE <<acc[1] \cup {dedupeKey},
               Append(acc[2], [classKey |-> classKey, label |-> label,
                               sailNumber |-> sailNumber])>>

\* One iteration of the for-loop of normaliseBoats; acc is <<seen, list>>.
normaliseBoat(maps, acc, boat) ==
    LET className == trim(orEmpty(boat, "className"))
        sailNumber == trim(orEmpty(boat, "sailNumber"))
        canonical == toUpperCase(className)
        byKey == maps.byKey
        byLabel == maps.byLabel
        found == canonical \in DOMAIN byKey \/ canonical \in DOMAIN byLabel
        option == IF canonical \in DOMAIN byKey THEN byKey[canonical]
                  ELSE byLabel[canonical]
        classKey == toUpperCase(IF found THEN option.key ELSE canonical)
        label == IF found THEN option.label ELSE className
        dedupeKey == dedupeKeyOf(classKey, sailNumber)
    IN  IF className = <<>> THEN acc
        ELSE IF dedupeKey \in acc[1] THEN acc
        ELSE <<acc[1] \cup {dedupeKey},
               Append(acc[2], [classKey |-> classKey, label |-> label,
                               sailNumber |-> sailNumber])>>

RECURSIVE normaliseBoatsFrom(_, _, _, _)
normaliseBoatsFrom(maps, boats, i, acc) ==
    IF i > Len(boats) THEN acc
    ELSE normaliseBoatsFrom(maps, boats, i + 1, normaliseBoat(maps, acc, boats[i]))

\* maps is the { byKey, byLabel } the closure reads from classLookupMaps.
normaliseBoats(maps, boats) ==
    IF Len(boats) = 0 THEN <<>>
    ELSE normaliseBoatsFrom(maps, boats, 1, <<{}, <<>>>>)[2]

\* boats.forEach of addBoatsForName; acc is <<seenKeys, existing>>.
\* mergeBoats without the seenKeys test.
mergeBoatsAppendingAll(boats, i, acc) ==
    <<acc[1], acc[2] \o SubSeq(boats, i, Len(boats))>>

RECURSIVE mergeBoats(_, _, _)
mergeBoats(boats, i, acc) ==
    IF i > Len(boats) THEN acc
    ELSE LET boat == boats[i]
             dedupeKey == dedupeKeyOf(boat.classKey, boat.sailNumber)
         IN  IF dedupeKey \in acc[1]
             THEN mergeBoats(boats, i + 1, acc)
             ELSE mergeBoats(boats, i + 1,
                      <<acc[1] \cup {dedupeKey}, Append(acc[2], boat)>>)

addBoatsForName(rosterMap, targetName, boats) ==
    LET trimmed == trim(targetName)
        key == toLowerCase(trimmed)
        existing == IF key \in DOMAIN rosterMap THEN rosterMap[key] ELSE <<>>
        seenKeys == {dedupeKeyOf(existing[n].classKey, existing[n].sailNumber) :
                        n \in DOMAIN existing}
    IN  IF trimmed = <<>> \/ Len(boats) = 0 THEN rosterMap
        ELSE (key :> mergeBoats(boats, 1, <<seenKeys, existing>>)[2]) @@ rosterMap

RECURSIVE buildRosterMapFrom(_, _, _, _)
buildRosterMapFrom(maps, profiles, i, rosterMap) ==
    IF i > Len(profiles) THEN rosterMap
    ELSE LET profile == profiles[i]
             boats == normaliseBoats(maps, orNone(profile, "boats"))
         IN  buildRosterMapFrom(maps, profiles, i + 1,
                 addBoatsForName(
                     addBoatsForName(rosterMap, orEmpty(profile, "helm"), boats),
                     orEmpty(profile, "crew"), boats))

\* The value of the rosterNameBoatMap memo for its two dependencies.
buildRosterNameBoatMap(maps, profiles) ==
    buildRosterMapFrom(maps, profiles, 1, <<>>)

-----------------------------------------------------------------------------
(* Boats, lookup and dropdown partition of a name pair *)

\* pushFromName looking the name up as it was typed, trimmed only.
pushFromNameCaseSensitive(acc, name) ==
    LET key == trim(name)
    IN  IF key = <<>> THEN acc
        ELSE IF key \notin DOMAIN rosterNameBoatMap THEN acc
        ELSE mergeBoats(rosterNameBoatMap[key], 1, acc)

\* pushFromName; acc is <<seen, combined>>.
pushFromName(acc, name) ==
    LET key == toLowerCase(trim(name))
    IN  IF key = <<>> THEN acc
        ELSE IF key \notin DOMAIN rosterNameBoatMap THEN acc
        ELSE mergeBoats(rosterNameBoatMap[key], 1, acc)

getBoatsForNames(helmName, crewName) ==
    pushFromName(pushFromName(<<{}, <<>>>>, helmName), crewName)[2]

\* lookupFrom letting a later boat of a class replace the earlier one.
RECURSIVE lookupFromLastWins(_, _, _)
lookupFromLastWins(boats, i, lookup) ==
    IF i > Len(boats) THEN lookup
    ELSE LET boat == boats[i]
             key == toUpperCase(boat.classKey)
         IN  IF boat.classKey = <<>> THEN lookupFromLastWins(boats, i + 1, lookup)
             ELSE lookupFromLastWins(boats, i + 1,
                      (key :> boat) @@ [k \in DOMAIN lookup \ {key} |-> lookup[k]])

RECURSIVE lookupFrom(_, _, _)
lookupFrom(boats, i, lookup) ==
    IF i > Len(boats) THEN lookup
    ELSE LET boat == boats[i]
             key == toUpperCase(boat.classKey)
         IN  IF boat.classKey = <<>> THEN lookupFrom(boats, i + 1, lookup)
             ELSE IF key \in DOMAIN lookup THEN lookupFrom(boats, i + 1, lookup)
             ELSE lookupFrom(boats, i + 1, (key :> boat) @@ lookup)

getBoatLookupForNames(helmName, crewName) ==
    lookupFrom(getBoatsForNames(helmName, crewName), 1, <<>>)

SailSuffix == <<" ", "·", " ", "S", "a", "i", "l", " ", "#">>

\* preferBoat appending the suffix also for an empty sail number.
preferBoatAlwaysSuffixed(acc, boat) ==
    LET classKey == toUpperCase(boat.classKey)
        labelKey == toUpperCase(trim(boat.label))
        byKey == classLookupMaps.byKey
        byLabel == classLookupMaps.byLabel
        found == classKey \in DOMAIN byKey \/ labelKey \in DOMAIN byLabel
        option == IF classKey \in DOMAIN byKey THEN byKey[classKey]
                  ELSE byLabel[labelKey]
        canonicalKey == toUpperCase(trim(option.key))
    IN  IF boat.classKey = <<>> THEN acc
        ELSE IF ~found THEN acc
        ELSE IF canonicalKey \in acc[1] THEN acc
        ELSE <<acc[1] \cup {canonicalKey},
               Append(acc[2], [option EXCEPT !.label =
                   option.label \o SailSuffix \o boat.sailNumber])>>

\* boats.forEach of getClassDropdownOptions; acc is <<preferredKeys, preferred>>.
preferBoat(acc, boat) ==
    LET classKey == toUpperCase(boat.classKey)
        labelKey == toUpperCase(trim(boat.label))
        byKey == classLookupMaps.byKey
        byLabel == classLookupMaps.byLabel
        found == classKey \in DOMAIN byKey \/ labelKey \in DOMAIN byLabel
        option == IF classKey \in DOMAIN byKey THEN byKey[classKey]
                  ELSE byLabel[labelKey]
        canonicalKey == toUpperCase(trim(option.key))
        sailNumberSuffix == IF boat.sailNumber # <<>>
                            THEN SailSuffix \o boat.sailNumber
                            ELSE <<>>
    IN  IF boat.classKey = <<>> THEN acc
        ELSE IF ~found THEN acc
        ELSE IF canonicalKey \in acc[1] THEN acc
        ELSE <<acc[1] \cup {canonicalKey},
               Append(acc[2], [option EXCEPT !.label = option.label \o sailNumberSuffix])>>

\* preferFrom visiting the boats from the last to the first.
RECURSIVE preferFromLastToFirst(_, _, _)
preferFromLastToFirst(boats, i, acc) ==
    IF i > Len(boats) THEN acc
    ELSE preferBoat(preferFromLastToFirst(boats, i + 1, acc), boats[i])

RECURSIVE preferFrom(_, _, _)
preferFrom(boats, i, acc) ==
    IF i > Len(boats) THEN acc
    ELSE preferFrom(boats, i + 1, preferBoat(acc, boats[i]))

\* getClassDropdownOptions returning the whole reference list as remaining.
getClassDropdownOptionsKeepingAll(helmName, crewName) ==
    LET boats == getBoatsForNames(helmName, crewName)
        acc == preferFrom(boats, 1, <<{}, <<>>>>)
    IN  [preferred |-> acc[2], remaining |-> classOptions]

getClassDropdownOptions(helmName, crewName) ==
    LET boats == getBoatsForNames(helmName, crewName)
        acc == preferFrom(boats, 1, <<{}, <<>>>>)
    IN  IF Len(boats) = 0
        THEN [preferred |-> <<>>, remaining |-> classOptions]
        ELSE [preferred |-> acc[2],
              remaining |-> SelectSeq(classOptions,
                                LAMBDA option : canonicalKeyOf(option) \notin acc[1])]

-----------------------------------------------------------------------------
(* String literals used by the reference and roster feeds and by the user *)

sLee == <<"L", "e", "e">>  \* "Lee"

sLeeLower == <<"l", "e", "e">>  \* "lee"

sLeePadded == <<" ", "L", "e", "e", " ">>  \* " Lee "

sLeeQuery == <<" ", "l", "e", "e">>  \* " lee"

sSam == <<"S", "a", "m">>  \* "Sam"

sSamLower == <<"s", "a", "m">>  \* "sam"

sAlex == <<"A", "l", "e", "x">>  \* "Alex"

sKim == <<"K", "i", "m">>  \* "Kim"

sPat == <<"P", "a", "t">>  \* "Pat"

sLASER == <<"L", "A", "S", "E", "R">>  \* "LASER"

sLaser == <<"L", "a", "s", "e", "r">>  \* "Laser"

sLaserLower == <<"l", "a", "s", "e", "r">>  \* "laser"

sLaserKeyPadded == <<" ", "l", "a", "s", "e", "r", " ">>  \* " laser "

sRS200 == <<"R", "S", "2", "0", "0">>  \* "RS200"

sRS200Lower == <<"r", "s", "2", "0", "0">>  \* "rs200"

sRS200Label == <<"R", "S", " ", "2", "0", "0">>  \* "RS 200"

sFEVA == <<"F", "E", "V", "A">>  \* "FEVA"

sFeva == <<"F", "e", "v", "a">>  \* "Feva"

sXYZ999 == <<"X", "Y", "Z", "9", "9", "9">>  \* "XYZ999"

sL == <<"L">>  \* "L"

sA == <<"A">>  \* "A"

sAPipe == <<"A", "|">>  \* "A|"

sB == <<"B">>  \* "B"

sPipeB == <<"|", "B">>  \* "|B"

s12345 == <<"1", "2", "3", "4", "5">>  \* "12345"

s55 == <<"5", "5">>  \* "55"

s55Padded == <<" ", "5", "5", " ">>  \* " 55 "

s9 == <<"9">>  \* "9"

s77 == <<"7", "7">>  \* "77"

s0 == <<"0">>  \* "0"

sBlank == <<" ">>  \* " "

sXyzPadded == <<" ", "X", "y", "z", " ">>  \* " Xyz "

-----------------------------------------------------------------------------
(* Inputs: reference feeds, roster feeds and the names asked about *)

MaxProfiles == 2

optLaser == [key |-> sLASER, label |-> sLaser]

refLaser == <<optLaser>>

refClub ==
    <<[key |-> sRS200, label |-> sRS200Label],
      [key |-> sFEVA, label |-> sFeva],
      optLaser>>

\* an untrimmed lower-case key, and two options sharing one label
refPadded ==
    <<[key |-> sLaserKeyPadded, label |-> sLaser],
      [key |-> sA, label |-> sLaser]>>

\* "laser" is the label of the first option and the key of the second
refCross ==
    <<[key |-> sL, label |-> sLaser],
      [key |-> sLASER, label |-> sFeva]>>

\* keys that collide after trimming and upper-casing
refDuplicate ==
    <<[key |-> sLaserLower, label |-> sLaser],
      [key |-> sLASER, label |-> sFeva]>>

RefPool == {<<>>, refLaser, refClub, refPadded, refCross, refDuplicate}

profileA ==
    [id |-> "A", helm |-> sSam, crew |-> sLee,
     boats |-> <<[className |-> sRS200, sailNumber |-> s55]>>]

profileB ==
    [id |-> "B", helm |-> sLee,
     boats |-> <<[className |-> sFeva, sailNumber |-> s9]>>]

profileAlex ==
    [id |-> "Alex", helm |-> sAlex,
     boats |-> <<[className |-> sLaserLower, sailNumber |-> s12345]>>]

\* a case variant of Lee, a boat already held by profile A, a boat without
\* sail number
profileC ==
    [id |-> "C", helm |-> sLeeLower, crew |-> sSam,
     boats |-> <<[className |-> sRS200Lower, sailNumber |-> s55Padded],
                 [className |-> sLaser]>>]

\* padded name, empty crew, a boat without class, an unknown class, the
\* same boat twice under two spellings
profileD ==
    [id |-> "D", helm |-> sLeePadded, crew |-> <<>>,
     boats |-> <<[sailNumber |-> s9],
                 [className |-> sXYZ999],
                 [className |-> sLaserLower, sailNumber |-> s12345],
                 [className |-> sLaser, sailNumber |-> s12345]>>]

\* one person as helm and crew of the same profile, two boats of one class
profileE ==
    [id |-> "E", helm |-> sSam, crew |-> sSamLower,
     boats |-> <<[className |-> sFeva, sailNumber |-> s9],
                 [className |-> sFeva, sailNumber |-> s55]>>]

\* no crew and no boats list
profileF == [id |-> "F", helm |-> sKim]

profileG ==
    [id |-> "G", helm |-> sPat,
     boats |-> <<[className |-> sAPipe, sailNumber |-> sB]>>]

profileH ==
    [id |-> "H", helm |-> sSam, crew |-> sPat,
     boats |-> <<[className |-> sA, sailNumber |-> sPipeB],
                 [className |-> sAPipe, sailNumber |-> sB]>>]

\* class names that are blank, empty, and padded text unknown to every feed
profileI ==
    [id |-> "I", helm |-> sAlex,
     boats |-> <<[className |-> sBlank, sailNumber |-> s9],
                 [className |-> <<>>, sailNumber |-> s55],
                 [className |-> sXyzPadded, sailNumber |-> s9]>>]

ProfilePool ==
    {profileA, profileB, profileAlex, profileC, profileD, profileE,
     profileF, profileG, profileH, profileI}

RECURSIVE SeqsUpTo(_, _)
SeqsUpTo(S, n) ==
    IF n = 0 THEN {<<>>}
    ELSE LET shorter == SeqsUpTo(S, n - 1)
         IN  shorter \cup {Append(q, x) : q \in shorter, x \in S}

RosterPool == SeqsUpTo(ProfilePool, MaxProfiles)

QueryNames == {<<>>, sLee, sLeeQuery, sSam, sAlex, sPat}

-----------------------------------------------------------------------------
(* Entry rows *)

blankRow(id) ==
    [id |-> id, helm |-> <<>>, crew |-> <<>>, sailNumber |-> <<>>,
     dinghy |-> <<>>, personal |-> s0, laps |-> <<>>, timeSeconds |-> <<>>,
     finCode |-> <<>>]

\* changeRow writing match?.sailNumber ?? "" into the row.
changeRowClearingOnMiss(row, id, key, value) ==
    IF row.id # id THEN row
    ELSE IF key \in {"helm", "crew"} THEN
        LET nextHelm == IF key = "helm" THEN value ELSE row.helm
            nextCrew == IF key = "crew" THEN value ELSE row.crew
            lookup == getBoatLookupForNames(nextHelm, nextCrew)
            dinghyKey == toUpperCase(row.dinghy)
            matched == dinghyKey # <<>> /\ dinghyKey \in DOMAIN lookup
            next == [row EXCEPT ![key] = value]
        IN  [next EXCEPT !.sailNumber =
                IF matched THEN lookup[dinghyKey].sailNumber ELSE <<>>]
    ELSE IF key = "dinghy" THEN
        LET canonical == toUpperCase(value)
            lookup == getBoatLookupForNames(row.helm, row.crew)
            matched == canonical \in DOMAIN lookup
            next == [row EXCEPT !.dinghy = canonical]
        IN  [next EXCEPT !.sailNumber =
                IF matched THEN lookup[canonical].sailNumber ELSE <<>>]
    ELSE [row EXCEPT ![key] = value]

\* changeRow testing match instead of match?.sailNumber.
changeRowCopyingEmptySail(row, id, key, value) ==
    IF row.id # id THEN row
    ELSE IF key \in {"helm", "crew"} THEN
        LET nextHelm == IF key = "helm" THEN value ELSE row.helm
            nextCrew == IF key = "crew" THEN value ELSE row.crew
            lookup == getBoatLookupForNames(nextHelm, nextCrew)
            dinghyKey == toUpperCase(row.dinghy)
            matched == dinghyKey # <<>> /\ dinghyKey \in DOMAIN lookup
            next == [row EXCEPT ![key] = value]
        IN  IF matched
            THEN [next EXCEPT !.sailNumber = lookup[dinghyKey].sailNumber]
            ELSE next
    ELSE IF key = "dinghy" THEN
        LET canonical == toUpperCase(value)
            lookup == getBoatLookupForNames(row.helm, row.crew)
            matched == canonical \in DOMAIN lookup
            next == [row EXCEPT !.dinghy = canonical]
        IN  IF matched
            THEN [next EXCEPT !.sailNumber = lookup[canonical].sailNumber]
            ELSE next
    ELSE [row EXCEPT ![key] = value]

\* changeRow filling the sail number only while the field is empty.
changeRowFillingOnlyEmpty(row, id, key, value) ==
    IF row.id # id THEN row
    ELSE IF key \in {"helm", "crew"} THEN
        LET nextHelm == IF key = "helm" THEN value ELSE row.helm
            nextCrew == IF key = "crew" THEN value ELSE row.crew
            lookup == getBoatLookupForNames(nextHelm, nextCrew)
            dinghyKey == toUpperCase(row.dinghy)
            matched == dinghyKey # <<>> /\ dinghyKey \in DOMAIN lookup
            next == [row EXCEPT ![key] = value]
        IN  IF matched /\ lookup[dinghyKey].sailNumber # <<>>
                       /\ row.sailNumber = <<>>
            THEN [next EXCEPT !.sailNumber = lookup[dinghyKey].sailNumber]
            ELSE next
    ELSE IF key = "dinghy" THEN
        LET canonical == toUpperCase(value)
            lookup == getBoatLookupForNames(row.helm, row.crew)
            matched == canonical \in DOMAIN lookup
            next == [row EXCEPT !.dinghy = canonical]
        IN  IF matched /\ lookup[canonical].sailNumber # <<>>
                       /\ row.sailNumber = <<>>
            THEN [next EXCEPT !.sailNumber = lookup[canonical].sailNumber]
            ELSE next
    ELSE [row EXCEPT ![key] = value]

\* changeRow looking the names up as they were before the edit.
changeRowLookingUpOldNames(row, id, key, value) ==
    IF row.id # id THEN row
    ELSE IF key \in {"helm", "crew"} THEN
        LET lookup == getBoatLookupForNames(row.helm, row.crew)
            dinghyKey == toUpperCase(row.dinghy)
            matched == dinghyKey # <<>> /\ dinghyKey \in DOMAIN lookup
            next == [row EXCEPT ![key] = value]
        IN  IF matched /\ lookup[dinghyKey].sailNumber # <<>>
            THEN [next EXCEPT !.sailNumber = lookup[dinghyKey].sailNumber]
            ELSE next
    ELSE IF key = "dinghy" THEN
        LET canonical == toUpperCase(value)
            lookup == getBoatLookupForNames(row.helm, row.crew)
            matched == canonical \in DOMAIN lookup
            next == [row EXCEPT !.dinghy = canonical]
        IN  IF matched /\ lookup[canonical].sailNumber # <<>>
            THEN [next EXCEPT !.sailNumber = lookup[canonical].sailNumber]
            ELSE next
    ELSE [row EXCEPT ![key] = value]

\* changeRow storing the class as typed, without upper-casing it.
changeRowKeepingCase(row, id, key, value) ==
    IF row.id # id THEN row
    ELSE IF key \in {"helm", "crew"} THEN
        LET nextHelm == IF key = "helm" THEN value ELSE row.helm
            nextCrew == IF key = "crew" THEN value ELSE row.crew
            lookup == getBoatLookupForNames(nextHelm, nextCrew)
            dinghyKey == toUpperCase(row.dinghy)
            matched == dinghyKey # <<>> /\ dinghyKey \in DOMAIN lookup
            next == [row EXCEPT ![key] = value]
        IN  IF matched /\ lookup[dinghyKey].sailNumber # <<>>
            THEN [next EXCEPT !.sailNumber = lookup[dinghyKey].sailNumber]
            ELSE next
    ELSE IF key = "dinghy" THEN
        LET canonical == toUpperCase(value)
            lookup == getBoatLookupForNames(row.helm, row.crew)
            matched == canonical \in DOMAIN lookup
            next == [row EXCEPT !.dinghy = value]
        IN  IF matched /\ lookup[canonical].sailNumber # <<>>
            THEN [next EXCEPT !.sailNumber = lookup[canonical].sailNumber]
            ELSE next
    ELSE [row EXCEPT ![key] = value]

\* The callback of current.map in handleRowChange.
changeRow(row, id, key, value) ==
    IF row.id # id THEN row
    ELSE IF key \in {"helm", "crew"} THEN
        LET nextHelm == IF key = "helm" THEN value ELSE row.helm
            nextCrew == IF key = "crew" THEN value ELSE row.crew
            lookup == getBoatLookupForNames(nextHelm, nextCrew)
            dinghyKey == toUpperCase(row.dinghy)
            matched == dinghyKey # <<>> /\ dinghyKey \in DOMAIN lookup
            next == [row EXCEPT ![key] = value]
        IN  IF matched /\ lookup[dinghyKey].sailNumber # <<>>
            THEN [next EXCEPT !.sailNumber = lookup[dinghyKey].sailNumber]
            ELSE next
    ELSE IF key = "dinghy" THEN
        LET canonical == toUpperCase(value)
            lookup == getBoatLookupForNames(row.helm, row.crew)
            matched == canonical \in DOMAIN lookup
            next == [row EXCEPT !.dinghy = canonical]
        IN  IF matched /\ lookup[canonical].sailNumber # <<>>
            THEN [next EXCEPT !.sailNumber = lookup[canonical].sailNumber]
            ELSE next
    ELSE [row EXCEPT ![key] = value]

\* handleRowChange applying the edit to every row, whatever its id.
handleRowChangeEveryRow(current, id, key, value) ==
    [n \in DOMAIN current |-> changeRow(current[n], current[n].id, key, value)]

handleRowChange(current, id, key, value) ==
    [n \in DOMAIN current |-> changeRow(current[n], id, key, value)]

-----------------------------------------------------------------------------
(* The race-entry page *)

\* The page starts with Array.from({ length: 10 }, blankRow); the grid is
\* modelled with InitialRowCount rows and grows to at most MaxRows.
InitialRowCount == 2

MaxRows == 2

PageRefPool == {refClub}

\* profileD: Lee has a Laser with sail number 12345, Sam is unknown;
\* profileC: Lee and Sam have a Laser without sail number.
PageRosterPool == {<<profileD>>, <<profileC>>}

HelmValues == {<<>>, sLeeQuery}

CrewValues == {<<>>, sSam}

DinghyValues == {<<>>, sLaser}

SailNumberValues == {<<>>, s77}

EditValues(key) ==
    CASE key = "helm" -> HelmValues
      [] key = "crew" -> CrewValues
      [] key = "dinghy" -> DinghyValues
      [] key = "sailNumber" -> SailNumberValues

EditKeys == {"helm", "crew", "dinghy", "sailNumber"}

\* createId: an id that no row of the grid holds (crypto.randomUUID); rows
\* are only ever compared by id, so the least unused number stands for it.
createId(used) ==
    CHOOSE id \in 1..(Cardinality(used) + 1) :
        id \notin used /\ \A j \in 1..(id - 1) : j \in used

blankRows == [n \in 1..InitialRowCount |-> blankRow(n)]

rowIds == {rows[n].id : n \in DOMAIN rows}

rowOf(list, id) == list[CHOOSE n \in DOMAIN list : list[n].id = id]

-----------------------------------------------------------------------------
(* ProfilePage: state, feeds and pure functions *)

sFemale == <<"f", "e", "m", "a", "l", "e">>  \* "female"

sMale == <<"m", "a", "l", "e">>  \* "male"

sMalePadded == <<" ", "M", "a", "l", "e", " ">>  \* " Male "

sOther == <<"o", "t", "h", "e", "r">>  \* "other"

sDob == <<"2", "0", "0", "1", "-", "0", "2", "-", "0", "3">>  \* "2001-02-03"

\* "2001-02-03T00:00:00"
sDobTime == sDob \o <<"T", "0", "0", ":", "0", "0", ":", "0", "0">>

sDobFuture == <<"2", "9", "9", "9", "-", "0", "1", "-", "0", "1">>  \* "2999-01-01"

sNotADate == <<"n", "/", "a">>  \* "n/a"

\* new Date().toISOString().slice(0, 10) on the day the page is open
todayIsoDate == <<"2", "0", "2", "6", "-", "1", "1", "-", "0", "3">>

UserId == "user-1"

PROFILE_MIGRATION_MESSAGE == "Your Supabase profiles table is missing the latest columns."

Digits == {"0", "1", "2", "3", "4", "5", "6", "7", "8", "9"}

digitValue(c) ==
    CASE c = "0" -> 0 [] c = "1" -> 1 [] c = "2" -> 2 [] c = "3" -> 3
      [] c = "4" -> 4 [] c = "5" -> 5 [] c = "6" -> 6 [] c = "7" -> 7
      [] c = "8" -> 8 [] c = "9" -> 9

\* /^\d{4}-\d{2}-\d{2}/ matches at the start of the string
startsWithIsoDate(s) ==
    /\ Len(s) >= 10
    /\ \A i \in {1, 2, 3, 4, 6, 7, 9, 10} : s[i] \in Digits
    /\ s[5] = "-" /\ s[8] = "-"

\* a > b for two strings of the form YYYY-MM-DD
isoDateGreater(a, b) ==
    \E i \in 1..10 :
        /\ \A j \in 1..(i - 1) : a[j] = b[j]
        /\ a[i] \in Digits /\ b[i] \in Digits
        /\ digitValue(a[i]) > digitValue(b[i])

\* null or undefined where the code expects a string: told apart from
\* every string, whose elements are single characters.
NullString == <<Null>>

\* normaliseGenderValue without the test against the two choices.
normaliseGenderValueKeepingAny(value) ==
    IF value = NullString THEN <<>> ELSE toLowerCase(trim(value))

\* typeof value !== "string"
normaliseGenderValue(value) ==
    IF value = NullString THEN <<>>
    ELSE LET trimmed == toLowerCase(trim(value))
         IN  IF trimmed = sFemale \/ trimmed = sMale THEN trimmed ELSE <<>>

\* The strings of the feeds that do not start with an ISO date are not
\* dates at all: new Date(trimmed) is NaN for them.
normaliseDateForInput(value) ==
    IF value = NullString \/ value = <<>> THEN <<>>
    ELSE LET trimmed == trim(value)
         IN  IF trimmed = <<>> THEN <<>>
             ELSE IF startsWithIsoDate(trimmed) THEN SubSeq(trimmed, 1, 10)
             ELSE <<>>

generateBoat(id) == [id |-> id, className |-> <<>>, sailNumber |-> <<>>]

\* data?.<name> of the answer of the store; the answer has no data field
\* when data is null.
dataField(response, name) ==
    IF "data" \in DOMAIN response /\ name \in DOMAIN response.data
    THEN response.data[name]
    ELSE NullString

\* data?.boats of a fetched row as the list of boat entries of the form
boatEntriesOf(response) ==
    LET items == IF dataField(response, "boats") # NullString
                 THEN response.data.boats
                 ELSE <<>>
        mapped == [n \in DOMAIN items |->
                      [className |-> orEmpty(items[n], "className"),
                       sailNumber |-> orEmpty(items[n], "sailNumber")]]
        profileBoats ==
            SelectSeq(mapped,
                LAMBDA item : item.className # <<>> \/ item.sailNumber # <<>>)
    IN  IF Len(profileBoats) > 0
        THEN [n \in DOMAIN profileBoats |->
                 [id |-> n, className |-> profileBoats[n].className,
                  sailNumber |-> profileBoats[n].sailNumber]]
        ELSE <<generateBoat(1)>>

\* boats.map(trim).filter(className || sailNumber) of handleProfileSubmit
cleanedBoatsOf(entries) ==
    SelectSeq([n \in DOMAIN entries |->
                  [className |-> trim(entries[n].className),
                   sailNumber |-> trim(entries[n].sailNumber)]],
              LAMBDA boat : boat.className # <<>> \/ boat.sailNumber # <<>>)

\* Responses of the profiles table to the select of fetchProfile.
rowComplete ==
    [status |-> 200,
     data |-> [date_of_birth |-> sDobTime, gender |-> sMalePadded,
               boats |-> <<[className |-> sLaser, sailNumber |-> s9],
                           [className |-> <<>>]>>]]

rowOddGender == [status |-> 200, data |-> [gender |-> sOther]]

noRow == [status |-> 200]

selectFailed == [status |-> 500, error |-> "network error"]

\* the table lacks the new columns: the first select fails with 400 and
\* the select("*") fallback returns the old row
columnsMissing ==
    [status |-> 400, error |-> "column profiles.gender does not exist",
     fallback |-> [status |-> 200, data |-> [date_of_birth |-> sNotADate]]]

ProfileResponses == {rowComplete, rowOddGender, noRow, selectFailed, columnsMissing}

UpsertResponses ==
    {[status |-> 200],
     [status |-> 500, error |-> "network error"],
     [status |-> 400, error |-> "column profiles.gender does not exist"]}

\* message.toLowerCase().includes("column") for the messages of the feeds
mentionsColumn(message) ==
    message = "column profiles.gender does not exist"

GenderInputs == {sFemale, sMale, sOther}

DateOfBirthInputs == {<<>>, sDob, sDobFuture}

MaxInFlight == 2

requestsInFlight == inFlight.fetchProfile + inFlight.upsert

ProfilePageInit ==
    /\ session = Null
    /\ dateOfBirth = <<>>
    /\ gender = <<>>
    /\ profilePageBoats = <<generateBoat(1)>>
    /\ profileMessage = Null
    /\ profileError = Null
    /\ profileBusy = FALSE
    /\ profileLoaded = FALSE
    /\ profileSchemaIssue = Null
    /\ inFlight = [getSession |-> TRUE, fetchProfile |-> 0, upsert |-> 0]
    /\ lastUpsert = <<>>

-----------------------------------------------------------------------------
(* SeriesAdminPage: state and feeds *)

sAutumn == <<"A", "u", "t", "u", "m", "n">>  \* "Autumn"

sSpring == <<"S", "p", "r", "i", "n", "g">>  \* "Spring"

sSaved == <<"S", "a", "v", "e", "d", " ">>  \* "Saved "

\* value.length >= 10 ? value.slice(0, 10) : value
toDateInputValue(value) ==
    IF value = <<>> THEN <<>>
    ELSE IF Len(value) >= 10 THEN SubSeq(value, 1, 10) ELSE value

\* The series of the /series feed.
SeriesRecords ==
    {[id |-> "series-1", code |-> "AUT", title |-> sAutumn, startDate |-> sDobTime],
     [id |-> "series-2", code |-> "SPR", title |-> sSpring]}

blankEditForm == [title |-> <<>>, startDate |-> <<>>, endDate |-> <<>>]

EditTitles == {<<>>, sSpring}

MaxEditSessions == 3

PortalPageInit ==
    /\ portalHelmName = <<>>
    /\ crewInputs = <<<<>>>>
    /\ signOutsInFlight = 0

SeriesPageInit ==
    /\ editingId = Null
    /\ editForm = blankEditForm
    /\ editError = Null
    /\ editSuccess = NullString
    /\ isSavingEdit = FALSE
    /\ patchesInFlight = {}
    /\ resetTimers = {}
    /\ editSession = 0

NoCall == [fn |-> "none", helmName |-> <<>>, crewName |-> <<>>, result |-> <<>>]

Init ==
    /\ classOptions = <<>>
    /\ rosterProfiles = <<>>
    /\ classLookupMaps = buildClassLookupMaps(<<>>)
    /\ rosterNameBoatMap = buildRosterNameBoatMap(buildClassLookupMaps(<<>>), <<>>)
    /\ rows = blankRows
    /\ results = Null
    /\ errorMessage = Null
    /\ selectedScheduleId = <<>>
    /\ isScoring = FALSE
    /\ scoreRequest = <<>>
    /\ lastOp = [op |-> "mount"]
    /\ call = NoCall
    /\ ProfilePageInit
    /\ SeriesPageInit
    /\ PortalPageInit

\* option.key.trim() / option.label.trim() on an option that lacks the
\* property: TypeError, thrown out of the classLookupMaps memo.
TypeError == "TypeError"

classLookupRaises(options) ==
    \E i \in DOMAIN options :
        "key" \notin DOMAIN options[i] \/ "label" \notin DOMAIN options[i]

\* The render threw: the page is replaced by the error boundary.
pageCrashed == "raised" \in DOMAIN lastOp

\* useSWR("/reference") delivers data; the memos that depend on it are
\* recomputed in the same render, which throws when the lookup cannot be
\* built.
ReferenceLoaded(reference) ==
    /\ ~pageCrashed
    /\ classOptions' = reference
    /\ IF classLookupRaises(reference)
       THEN /\ lastOp' = [op |-> "reference", raised |-> TypeError]
            /\ UNCHANGED <<classLookupMaps, rosterNameBoatMap>>
       ELSE /\ classLookupMaps' = buildClassLookupMaps(reference)
            /\ rosterNameBoatMap' =
                   buildRosterNameBoatMap(buildClassLookupMaps(reference),
                                          rosterProfiles)
            /\ lastOp' = [op |-> "reference"]
    /\ UNCHANGED <<rosterProfiles, rows, scoreVars, call>>
    /\ UNCHANGED <<profileVars, seriesVars, portalVars>>

\* useSWR("/profiles-roster") delivers data.
RosterLoaded(profiles) ==
    /\ ~pageCrashed
    /\ rosterProfiles' = profiles
    /\ rosterNameBoatMap' = buildRosterNameBoatMap(classLookupMaps, profiles)
    /\ lastOp' = [op |-> "roster"]
    /\ UNCHANGED <<classOptions, classLookupMaps, rows, scoreVars, call>>
    /\ UNCHANGED <<profileVars, seriesVars, portalVars>>

HandleRowChange(id, key, value) ==
    /\ ~pageCrashed
    /\ rows' = handleRowChange(rows, id, key, value)
    /\ lastOp' = [op |-> "handleRowChange", id |-> id, key |-> key,
                  value |-> value]
    /\ UNCHANGED <<classOptions, rosterProfiles, classLookupMaps,
                   rosterNameBoatMap, scoreVars, call>>
    /\ UNCHANGED <<profileVars, seriesVars, portalVars>>

RemoveRow(id) ==
    /\ ~pageCrashed
    /\ rows' = SelectSeq(rows, LAMBDA row : row.id # id)
    /\ lastOp' = [op |-> "removeRow", id |-> id]
    /\ UNCHANGED <<classOptions, rosterProfiles, classLookupMaps,
                   rosterNameBoatMap, scoreVars, call>>
    /\ UNCHANGED <<profileVars, seriesVars, portalVars>>

AddRow ==
    /\ ~pageCrashed
    /\ Len(rows) < MaxRows
    /\ rows' = Append(rows, blankRow(createId(rowIds)))
    /\ lastOp' = [op |-> "addRow"]
    /\ UNCHANGED <<classOptions, rosterProfiles, classLookupMaps,
                   rosterNameBoatMap, scoreVars, call>>
    /\ UNCHANGED <<profileVars, seriesVars, portalVars>>

Reset ==
    /\ ~pageCrashed
    /\ rows' = blankRows
    /\ results' = Null
    /\ errorMessage' = Null
    /\ selectedScheduleId' = <<>>
    /\ lastOp' = [op |-> "reset"]
    /\ UNCHANGED <<classOptions, rosterProfiles, classLookupMaps,
                   rosterNameBoatMap, isScoring, scoreRequest, call>>
    /\ UNCHANGED <<profileVars, seriesVars, portalVars>>

Next ==
    \/ \E reference \in PageRefPool : ReferenceLoaded(reference)
    \/ \E profiles \in PageRosterPool : RosterLoaded(profiles)
    \/ \E id \in rowIds, key \in EditKeys :
           \E value \in EditValues(key) : HandleRowChange(id, key, value)
    \/ \E id \in rowIds : RemoveRow(id)
    \/ AddRow
    \/ Reset

Spec == Init /\ [][Next]_vars

-----------------------------------------------------------------------------
(* The page receiving reference and roster feeds of any shape *)

\* an option without label
refNoLabel == <<optLaser, [key |-> sFEVA]>>

\* an option without key
refNoKey == <<[label |-> sFeva]>>

\* an option whose key is the empty string
refEmptyKey == <<[key |-> <<>>, label |-> sLaser]>>

FeedPool ==
    {<<>>, refLaser, refClub, refCross, refNoLabel, refNoKey, refEmptyKey}

NextFeeds ==
    \/ \E reference \in FeedPool : ReferenceLoaded(reference)
    \/ \E profiles \in RosterPool : RosterLoaded(profiles)

SpecFeeds == Init /\ [][NextFeeds]_vars

-----------------------------------------------------------------------------
(* The roster functions applied to inputs drawn from the pools: a behaviour *)
(* starts with one reference feed and one roster and makes one call.       *)

InitRoster ==
    /\ classOptions \in RefPool
    /\ rosterProfiles \in RosterPool
    /\ classLookupMaps = buildClassLookupMaps(classOptions)
    /\ rosterNameBoatMap =
           buildRosterNameBoatMap(buildClassLookupMaps(classOptions), rosterProfiles)
    /\ rows = blankRows
    /\ results = Null
    /\ errorMessage = Null
    /\ selectedScheduleId = <<>>
    /\ isScoring = FALSE
    /\ scoreRequest = <<>>
    /\ lastOp = [op |-> "mount"]
    /\ call = NoCall
    /\ ProfilePageInit
    /\ SeriesPageInit
    /\ PortalPageInit

CallGetBoatsForNames(helmName, crewName) ==
    /\ call = NoCall
    /\ call' = [fn |-> "getBoatsForNames", helmName |-> helmName,
                crewName |-> crewName,
                result |-> getBoatsForNames(helmName, crewName)]
    /\ UNCHANGED <<classOptions, rosterProfiles, classLookupMaps,
                   rosterNameBoatMap, rows, scoreVars, lastOp>>
    /\ UNCHANGED <<profileVars, seriesVars, portalVars>>

CallGetBoatLookupForNames(helmName, crewName) ==
    /\ call = NoCall
    /\ call' = [fn |-> "getBoatLookupForNames", helmName |-> helmName,
                crewName |-> crewName,
                result |-> getBoatLookupForNames(helmName, crewName)]
    /\ UNCHANGED <<classOptions, rosterProfiles, classLookupMaps,
                   rosterNameBoatMap, rows, scoreVars, lastOp>>
    /\ UNCHANGED <<profileVars, seriesVars, portalVars>>

CallGetClassDropdownOptions(helmName, crewName) ==
    /\ call = NoCall
    /\ call' = [fn |-> "getClassDropdownOptions", helmName |-> helmName,
                crewName |-> crewName,
                result |-> getClassDropdownOptions(helmName, crewName)]
    /\ UNCHANGED <<classOptions, rosterProfiles, classLookupMaps,
                   rosterNameBoatMap, rows, scoreVars, lastOp>>
    /\ UNCHANGED <<profileVars, seriesVars, portalVars>>

NextRoster ==
    \/ \E helmName \in QueryNames, crewName \in QueryNames :
           CallGetBoatsForNames(helmName, crewName)
    \/ \E helmName \in QueryNames, crewName \in QueryNames :
           CallGetBoatLookupForNames(helmName, crewName)
    \/ \E helmName \in QueryNames, crewName \in QueryNames :
           CallGetClassDropdownOptions(helmName, crewName)

SpecRoster == InitRoster /\ [][NextRoster]_vars

-----------------------------------------------------------------------------
(* Properties of the roster functions *)

keysIn(options) == {options[i].key : i \in DOMAIN options}

occurrencesOfKey(options, key) ==
    Cardinality({i \in DOMAIN options : options[i].key = key})

UniqueCanonicalKeys ==
    \A i, j \in DOMAIN classOptions :
        canonicalKeyOf(classOptions[i]) = canonicalKeyOf(classOptions[j]) => i = j

sameBoat(a, b) == a.classKey = b.classKey /\ a.sailNumber = b.sailNumber

noDuplicateBoats(list) ==
    \A i, j \in DOMAIN list : sameBoat(list[i], list[j]) => i = j

\* The list without the elements whose (classKey, sailNumber) occurs earlier.
withoutRepeats(list) ==
    LET first(i) == \A j \in 1..(i - 1) : ~sameBoat(list[j], list[i])
        F[i \in 0..Len(list)] ==
            IF i = 0 THEN <<>>
            ELSE IF first(i) THEN Append(F[i - 1], list[i]) ELSE F[i - 1]
    IN  F[Len(list)]

nameKey(name) == toLowerCase(trim(name))

\* The index list of a name, empty when the index has no entry for it.
indexListOf(name) ==
    IF nameKey(name) \in DOMAIN rosterNameBoatMap
    THEN rosterNameBoatMap[nameKey(name)]
    ELSE <<>>

normalisedBoatsOf(profile) ==
    normaliseBoats(classLookupMaps, orNone(profile, "boats"))

\* C1: with reference keys unique after trimming and upper-casing, every
\* preferred key is a reference key, no key is in both preferred and
\* remaining, and every reference key occurs exactly once in the two lists
\* taken together.
C1_PartitionCoversReference ==
    (call.fn = "getClassDropdownOptions" /\ UniqueCanonicalKeys) =>
        LET preferred == call.result.preferred
            remaining == call.result.remaining
        IN  /\ keysIn(preferred) \subseteq keysIn(classOptions)
            /\ keysIn(preferred) \cap keysIn(remaining) = {}
            /\ \A key \in keysIn(classOptions) :
                   occurrencesOfKey(preferred, key)
                       + occurrencesOfKey(remaining, key) = 1

C1_Witness ==
    /\ call.fn = "getClassDropdownOptions"
    /\ UniqueCanonicalKeys
    /\ Len(call.result.preferred) >= 2
    /\ Len(call.result.remaining) >= 1

\* C7: no two elements of a derived boat list have the same
\* (classKey, sailNumber): the normalised list of each profile, every list
\* of the roster boat index, and the result of getBoatsForNames.
C7_NoDuplicateBoats ==
    /\ \A i \in DOMAIN rosterProfiles :
           noDuplicateBoats(normalisedBoatsOf(rosterProfiles[i]))
    /\ \A key \in DOMAIN rosterNameBoatMap :
           noDuplicateBoats(rosterNameBoatMap[key])
    /\ call.fn = "getBoatsForNames" => noDuplicateBoats(call.result)

\* Two profiles contribute the same boat to both names of the pair asked
\* about, and one profile lists a boat twice.
C7_Witness ==
    /\ call.fn = "getBoatsForNames"
    /\ Len(rosterProfiles) = 2
    /\ \E boat \in {call.result[n] : n \in DOMAIN call.result} :
           /\ \A i \in DOMAIN rosterProfiles :
                  \E n \in DOMAIN normalisedBoatsOf(rosterProfiles[i]) :
                      normalisedBoatsOf(rosterProfiles[i])[n] = boat
           /\ \E n \in DOMAIN indexListOf(call.helmName) :
                  indexListOf(call.helmName)[n] = boat
           /\ \E n \in DOMAIN indexListOf(call.crewName) :
                  indexListOf(call.crewName)[n] = boat
    /\ nameKey(call.helmName) # nameKey(call.crewName)
    /\ \E i \in DOMAIN rosterProfiles :
           Len(normalisedBoatsOf(rosterProfiles[i]))
               < Len(orNone(rosterProfiles[i], "boats"))

\* The helm and crew names of the roster in scan order: profiles in roster
\* order, helm before crew.
scannedNames ==
    [k \in 1..(2 * Len(rosterProfiles)) |->
        orEmpty(rosterProfiles[(k + 1) \div 2],
                IF k % 2 = 1 THEN "helm" ELSE "crew")]

\* names holds exactly one entry per distinct non-empty scanned name under
\* case-insensitive comparison after trimming, spelled as its first
\* occurrence.
oneEntryPerName(names) ==
    /\ \A k \in DOMAIN scannedNames :
           trim(scannedNames[k]) # <<>> =>
               Cardinality({i \in DOMAIN names :
                   toLowerCase(names[i]) = nameKey(scannedNames[k])}) = 1
    /\ \A i \in DOMAIN names :
           \E k \in DOMAIN scannedNames :
               /\ names[i] = trim(scannedNames[k])
               /\ names[i] # <<>>
               /\ \A j \in 1..(k - 1) :
                      nameKey(scannedNames[j]) # nameKey(scannedNames[k])

\* C8: the name-suggestion list of the race-entry page and of the sign-on
\* portal has exactly one entry per distinct non-empty helm or crew name
\* compared case-insensitively after trimming, in the casing of its first
\* occurrence in scan order.
C8_OneSuggestionPerName ==
    /\ oneEntryPerName(rosterNameOptions)
    /\ oneEntryPerName(portalRosterNameOptions)

\* A later case variant of a listed name was dropped.
C8_Witness ==
    /\ Len(rosterNameOptions) >= 2
    /\ \E j, k \in DOMAIN scannedNames :
           /\ j < k
           /\ nameKey(scannedNames[j]) = nameKey(scannedNames[k])
           /\ trim(scannedNames[j]) # trim(scannedNames[k])
           /\ \E i \in DOMAIN rosterNameOptions :
                  rosterNameOptions[i] = trim(scannedNames[j])
           /\ \A i \in DOMAIN rosterNameOptions :
                  rosterNameOptions[i] # trim(scannedNames[k])
    /\ portalRosterNameOptions = rosterNameOptions

\* The name appears once as helm and once as crew, in two profiles.
onceHelmOnceCrew(key, first, second) ==
    /\ key # <<>>
    /\ \/ /\ nameKey(orEmpty(first, "helm")) = key
          /\ nameKey(orEmpty(first, "crew")) # key
          /\ nameKey(orEmpty(second, "crew")) = key
          /\ nameKey(orEmpty(second, "helm")) # key
       \/ /\ nameKey(orEmpty(first, "crew")) = key
          /\ nameKey(orEmpty(first, "helm")) # key
          /\ nameKey(orEmpty(second, "helm")) = key
          /\ nameKey(orEmpty(second, "crew")) # key

\* C6: for two profiles in which one person appears once as helm and once
\* as crew, the index entry of that name is the union of the normalised
\* boats of both profiles, de-duplicated by (classKey, sailNumber), the
\* boats of the earlier profile first.
C6_IndexIsUnionOfBothProfiles ==
    Len(rosterProfiles) = 2 =>
        \A name \in QueryNames :
            onceHelmOnceCrew(nameKey(name), rosterProfiles[1], rosterProfiles[2]) =>
                indexListOf(name) =
                    withoutRepeats(normalisedBoatsOf(rosterProfiles[1])
                                   \o normalisedBoatsOf(rosterProfiles[2]))

\* C10: getBoatsForNames(helm, crew) is the index list of the helm name
\* followed by the boats of the crew name's index list whose
\* (classKey, sailNumber) is not already present; an empty or unknown name
\* contributes nothing.
C10_HelmListThenNewCrewBoats ==
    call.fn = "getBoatsForNames" =>
        call.result =
            withoutRepeats(indexListOf(call.helmName) \o indexListOf(call.crewName))

\* C10, the example: profile A {Sam, Lee, RS200 55} and profile B
\* {Lee, Feva 9} give both boats for the pair ("Lee", "").
C10_Example ==
    (/\ rosterProfiles = <<profileA, profileB>>
     /\ classOptions = refClub
     /\ call.fn = "getBoatsForNames"
     /\ call.helmName = sLee
     /\ call.crewName = <<>>) =>
        call.result =
            <<[classKey |-> sRS200, label |-> sRS200Label, sailNumber |-> s55],
              [classKey |-> sFEVA, label |-> sFeva, sailNumber |-> s9]>>

\* The profile names the helm or the crew of the pair asked about.
profileOfPair(profile) ==
    {nameKey(orEmpty(profile, "helm")), nameKey(orEmpty(profile, "crew"))}
        \cap ({nameKey(call.helmName), nameKey(call.crewName)} \ {<<>>}) # {}

labelWithSail(option, sailNumber) ==
    IF sailNumber # <<>>
    THEN option.label \o <<" ", "·", " ", "S", "a", "i", "l", " ", "#">> \o sailNumber
    ELSE option.label

standsForOption(boat) ==
    \/ \E k \in DOMAIN classOptions :
           canonicalKeyOf(classOptions[k]) = toUpperCase(boat.classKey)
    \/ \E k \in DOMAIN classOptions :
           canonicalLabelOf(classOptions[k]) = toUpperCase(trim(boat.label))

optionOfBoat(boat) ==
    IF \E k \in DOMAIN classOptions :
           canonicalKeyOf(classOptions[k]) = toUpperCase(boat.classKey)
    THEN classOptions[CHOOSE k \in DOMAIN classOptions :
             canonicalKeyOf(classOptions[k]) = toUpperCase(boat.classKey)]
    ELSE classOptions[CHOOSE k \in DOMAIN classOptions :
             /\ canonicalLabelOf(classOptions[k]) = toUpperCase(trim(boat.label))
             /\ \A j \in DOMAIN classOptions :
                    j > k => canonicalLabelOf(classOptions[j])
                                 # toUpperCase(trim(boat.label))]

-----------------------------------------------------------------------------
(* Properties of the row-update propagation *)

\* The last step was handleRowChange on one of these fields.
editedField(op, keys) == op.op = "handleRowChange" /\ op.key \in keys

\* The boat lookup of the name pair a row holds.
lookupOfRow(row) == getBoatLookupForNames(row.helm, row.crew)

\* C2: a boat-class edit whose upper-cased class has no entry in the boat
\* lookup of the row's name pair leaves the row's sail number as it was.
C2_ClassEditWithoutMatchKeepsSail ==
    [][editedField(lastOp', {"dinghy"}) =>
          LET before == rowOf(rows, lastOp'.id)
              after == rowOf(rows', lastOp'.id)
          IN  toUpperCase(lastOp'.value) \notin DOMAIN lookupOfRow(before) =>
                  after.sailNumber = before.sailNumber]_vars

\* A class was selected for a row of a known sailor who has no boat of that
\* class, and the typed sail number is still there.
C2_Witness ==
    /\ editedField(lastOp, {"dinghy"})
    /\ lastOp.value # <<>>
    /\ rosterProfiles # <<>>
    /\ LET row == rowOf(rows, lastOp.id)
       IN  /\ row.dinghy = toUpperCase(lastOp.value)
           /\ row.dinghy \notin DOMAIN lookupOfRow(row)
           /\ row.crew = sSam
           /\ row.sailNumber = s77

\* C3 as stated: after a boat-class edit that matches an entry of the boat
\* lookup, the row's sail number is the matched boat's sail number,
\* whatever that is.
C3_ClassEditWithMatchCopiesSail ==
    editedField(lastOp, {"dinghy"}) =>
        LET row == rowOf(rows, lastOp.id)
        IN  row.dinghy \in DOMAIN lookupOfRow(row) =>
                row.sailNumber = lookupOfRow(row)[row.dinghy].sailNumber

\* C3 as amended: a boat-class edit that matches a boat with a non-empty
\* sail number overwrites the row's sail number with it, whatever the
\* field held; a match with a boat without sail number leaves the field
\* as it was.
C3_ClassEditWithMatchOverwritesSail ==
    [][editedField(lastOp', {"dinghy"}) =>
          LET before == rowOf(rows, lastOp'.id)
              after == rowOf(rows', lastOp'.id)
              canonical == toUpperCase(lastOp'.value)
              lookup == lookupOfRow(before)
          IN  canonical \in DOMAIN lookup =>
                  after.sailNumber =
                      IF lookup[canonical].sailNumber # <<>>
                      THEN lookup[canonical].sailNumber
                      ELSE before.sailNumber]_vars

\* The class edit replaced a sail number: the row now holds the matched
\* boat's number although 77 was the only value ever typed.
C3_Witness ==
    /\ editedField(lastOp, {"dinghy"})
    /\ LET row == rowOf(rows, lastOp.id)
       IN  /\ row.dinghy \in DOMAIN lookupOfRow(row)
           /\ row.sailNumber = lookupOfRow(row)[row.dinghy].sailNumber
           /\ row.sailNumber = s12345

\* C4 as stated: after a helm or crew edit the name field holds the new
\* value, and if the row's class matches an entry of the lookup of the new
\* name pair the sail number is that entry's sail number.
C4_NameEditWithMatchCopiesSail ==
    editedField(lastOp, {"helm", "crew"}) =>
        LET row == rowOf(rows, lastOp.id)
        IN  /\ row[lastOp.key] = lastOp.value
            /\ (row.dinghy # <<>> /\ toUpperCase(row.dinghy) \in DOMAIN lookupOfRow(row)) =>
                   row.sailNumber =
                       lookupOfRow(row)[toUpperCase(row.dinghy)].sailNumber

\* C4 as amended: a helm or crew edit stores the new value and looks the
\* row's class up for the name pair with the new value in place; a match
\* with a non-empty sail number becomes the row's sail number; without
\* match, or when the matched boat has no sail number, the sail number is
\* left as it was.
C4_NameEditRecomputesLookup ==
    [][editedField(lastOp', {"helm", "crew"}) =>
          LET before == rowOf(rows, lastOp'.id)
              after == rowOf(rows', lastOp'.id)
              nextHelm == IF lastOp'.key = "helm" THEN lastOp'.value ELSE before.helm
              nextCrew == IF lastOp'.key = "crew" THEN lastOp'.value ELSE before.crew
              lookup == getBoatLookupForNames(nextHelm, nextCrew)
              dinghyKey == toUpperCase(before.dinghy)
          IN  /\ after.helm = nextHelm
              /\ after.crew = nextCrew
              /\ after.sailNumber =
                     IF /\ dinghyKey # <<>>
                        /\ dinghyKey \in DOMAIN lookup
                        /\ lookup[dinghyKey].sailNumber # <<>>
                     THEN lookup[dinghyKey].sailNumber
                     ELSE before.sailNumber]_vars

\* Entering the helm brought the sail number of her boat into a row whose
\* class was selected first.
C4_Witness ==
    /\ editedField(lastOp, {"helm"})
    /\ lastOp.value = sLeeQuery
    /\ LET row == rowOf(rows, lastOp.id)
       IN  /\ row.helm = sLeeQuery
           /\ row.crew = <<>>
           /\ row.dinghy = sLASER
           /\ row.sailNumber = s12345

\* C5: in no step does the sail number of a row go from non-empty to empty
\* unless the step is an edit of that row's sail-number field or a reset
\* of the grid; helm, crew and boat-class edits never clear it.
C5_AutoPopulationNeverClears ==
    [][\A id \in rowIds :
          (/\ \E n \in DOMAIN rows' : rows'[n].id = id
           /\ rowOf(rows, id).sailNumber # <<>>
           /\ rowOf(rows', id).sailNumber = <<>>) =>
              \/ lastOp'.op = "reset"
              \/ /\ editedField(lastOp', {"sailNumber"})
                 /\ lastOp'.id = id]_vars

\* A row kept its typed sail number through an edit that matched a boat
\* without sail number.
C5_Witness ==
    /\ editedField(lastOp, {"helm", "crew", "dinghy"})
    /\ LET row == rowOf(rows, lastOp.id)
       IN  /\ row.dinghy \in DOMAIN lookupOfRow(row)
           /\ lookupOfRow(row)[row.dinghy].sailNumber = <<>>
           /\ row.sailNumber = s77

-----------------------------------------------------------------------------
(* Synthetic entries *)

\* The boats of the roster feed as the profiles hold them.
rosterBoats ==
    UNION {{orNone(rosterProfiles[p], "boats")[b] :
               b \in DOMAIN orNone(rosterProfiles[p], "boats")} :
           p \in DOMAIN rosterProfiles}

\* The text names a class and equals no reference key and no reference
\* label after trimming and upper-casing.
matchesNoOption(text) ==
    /\ trim(text) # <<>>
    /\ \A i \in DOMAIN classOptions :
           /\ canonicalKeyOf(classOptions[i]) # toUpperCase(trim(text))
           /\ canonicalLabelOf(classOptions[i]) # toUpperCase(trim(text))

optionsOfCall ==
    {call.result.preferred[i] : i \in DOMAIN call.result.preferred}
        \cup {call.result.remaining[i] : i \in DOMAIN call.result.remaining}

noOptionOfCallFor(text) ==
    call.fn = "getClassDropdownOptions" =>
        \A option \in optionsOfCall :
            /\ option.key # toUpperCase(trim(text))
            /\ canonicalKeyOf(option) # toUpperCase(trim(text))

\* C11 as stated: a roster boat whose class text matches no reference key
\* and no reference label resolves to an entry whose classKey is the
\* trimmed upper-cased text and whose label is the text as the profile holds
\* it, and no partition lists the class.
C11_SyntheticEntryKeepsOriginalText ==
    \A boat \in rosterBoats :
        LET text == orEmpty(boat, "className")
        IN  matchesNoOption(text) =>
                /\ normaliseBoats(classLookupMaps, <<boat>>) =
                       <<[classKey |-> toUpperCase(trim(text)),
                          label |-> text,
                          sailNumber |-> trim(orEmpty(boat, "sailNumber"))]>>
                /\ noOptionOfCallFor(text)

\* C11: a roster boat whose class text matches no reference key and no
\* reference label resolves to an entry whose classKey is the trimmed
\* upper-cased text and whose label is the trimmed text in its original
\* letter case, and for every name pair neither preferred nor remaining
\* lists the class.
C11_SyntheticEntryKeepsTrimmedText ==
    \A boat \in rosterBoats :
        LET text == orEmpty(boat, "className")
        IN  matchesNoOption(text) =>
                /\ normaliseBoats(classLookupMaps, <<boat>>) =
                       <<[classKey |-> toUpperCase(trim(text)),
                          label |-> trim(text),
                          sailNumber |-> trim(orEmpty(boat, "sailNumber"))]>>
                /\ noOptionOfCallFor(text)

\* The partition was asked for a pair that holds a synthetic boat made from
\* padded text next to a boat of a reference class.
C11_Witness ==
    /\ call.fn = "getClassDropdownOptions"
    /\ Len(call.result.preferred) >= 1
    /\ \E boat \in rosterBoats :
           /\ matchesNoOption(orEmpty(boat, "className"))
           /\ orEmpty(boat, "className") # trim(orEmpty(boat, "className"))
           /\ \E n \in DOMAIN getBoatsForNames(call.helmName, call.crewName) :
                  getBoatsForNames(call.helmName, call.crewName)[n].classKey =
                      toUpperCase(trim(orEmpty(boat, "className")))

-----------------------------------------------------------------------------
(* Order of the partition *)

\* The reference options the boats of a list stand for, in the order of the
\* list, each canonical key once (its first occurrence).
classSequenceOf(boats) ==
    LET counts(n) == boats[n].classKey # <<>> /\ standsForOption(boats[n])
        F[n \in 0..Len(boats)] ==
            IF n = 0 THEN <<>>
            ELSE IF /\ counts(n)
                    /\ \A e \in DOMAIN F[n - 1] :
                           canonicalKeyOf(F[n - 1][e])
                               # canonicalKeyOf(optionOfBoat(boats[n]))
                 THEN Append(F[n - 1], optionOfBoat(boats[n]))
                 ELSE F[n - 1]
    IN  F[Len(boats)]

keySequenceOf(options) == [e \in DOMAIN options |-> options[e].key]

orderedPartition ==
    LET boats == getBoatsForNames(call.helmName, call.crewName)
        preferred == call.result.preferred
        remaining == call.result.remaining
    IN  /\ keySequenceOf(preferred) = keySequenceOf(classSequenceOf(boats))
        /\ \A d, e \in DOMAIN preferred :
               canonicalKeyOf(preferred[d]) = canonicalKeyOf(preferred[e])
                   => d = e
        /\ remaining =
               SelectSeq(classOptions,
                   LAMBDA option :
                       \A e \in DOMAIN preferred : preferred[e].key # option.key)

\* C12 as stated: for any reference list, preferred lists the classes in
\* the order in which their first boat occurs in the helm-first boat list,
\* one entry per canonical key, and remaining is the reference list without
\* the options of preferred, in reference order.
C12_PartitionInBoatThenReferenceOrder ==
    call.fn = "getClassDropdownOptions" => orderedPartition

\* C12: the same for reference lists whose keys are unique after trimming
\* and upper-casing.
C12_PartitionOrderedForUniqueKeys ==
    (call.fn = "getClassDropdownOptions" /\ UniqueCanonicalKeys) =>
        orderedPartition

\* Two preferred classes stand in the order of the boats, which is not the
\* order of the reference list, a class has a second boat, and an option
\* remains.
C12_Witness ==
    /\ call.fn = "getClassDropdownOptions"
    /\ UniqueCanonicalKeys
    /\ Len(call.result.remaining) >= 1
    /\ Len(getBoatsForNames(call.helmName, call.crewName))
           > Len(call.result.preferred)
    /\ \E d, e \in DOMAIN call.result.preferred :
           /\ d < e
           /\ \E i, j \in DOMAIN classOptions :
                  /\ j < i
                  /\ classOptions[i].key = call.result.preferred[d].key
                  /\ classOptions[j].key = call.result.preferred[e].key

-----------------------------------------------------------------------------
(* Malformed and incomplete feeds *)

\* C14 as stated: building the class lookup, the name list and the roster
\* boat index never raises, whatever reference and roster feeds arrive.
C14_BuildingNeverRaises == ~pageCrashed

-----------------------------------------------------------------------------
(* Boat lookup of a name pair *)

-----------------------------------------------------------------------------
(* Boats without a class name *)

classless(boat) == trim(orEmpty(boat, "className")) = <<>>

\* The roster feed with the boats that have no class name taken out.
withoutClasslessBoats(profiles) ==
    [p \in DOMAIN profiles |->
        IF "boats" \in DOMAIN profiles[p]
        THEN [profiles[p] EXCEPT
                 !.boats = SelectSeq(@, LAMBDA boat : ~classless(boat))]
        ELSE profiles[p]]

\* C19: the boat index is the index of the roster without its classless
\* boats, no index entry and no boat returned for a name pair has an empty
\* classKey, and no preferred option stems from a classless boat.
C19_ClasslessBoatsSkipped ==
    /\ rosterNameBoatMap =
           buildRosterNameBoatMap(classLookupMaps,
                                  withoutClasslessBoats(rosterProfiles))
    /\ \A key \in DOMAIN rosterNameBoatMap :
           \A n \in DOMAIN rosterNameBoatMap[key] :
               rosterNameBoatMap[key][n].classKey # <<>>
    /\ call.fn = "getBoatsForNames" =>
           \A n \in DOMAIN call.result : call.result[n].classKey # <<>>
    /\ call.fn = "getBoatLookupForNames" =>
           \A key \in DOMAIN call.result :
               key # <<>> /\ call.result[key].classKey # <<>>
    /\ call.fn = "getClassDropdownOptions" =>
           Len(call.result.preferred)
               <= Len(getBoatsForNames(call.helmName, call.crewName))

\* A profile of the pair holds a classless boat in front of a boat with a
\* class, and the pair's boat list came back non-empty.
C19_Witness ==
    /\ call.fn = "getBoatsForNames"
    /\ Len(call.result) >= 1
    /\ \E p \in DOMAIN rosterProfiles :
           /\ profileOfPair(rosterProfiles[p])
           /\ \E m, n \in DOMAIN orNone(rosterProfiles[p], "boats") :
                  /\ m < n
                  /\ classless(rosterProfiles[p].boats[m])
                  /\ ~classless(rosterProfiles[p].boats[n])

-----------------------------------------------------------------------------
(* Resolution of a class name *)

canonicalText(boat) == toUpperCase(trim(orEmpty(boat, "className")))

optionsWithKey(text) ==
    {i \in DOMAIN classOptions : canonicalKeyOf(classOptions[i]) = text}

optionsWithLabel(text) ==
    {i \in DOMAIN classOptions : canonicalLabelOf(classOptions[i]) = text}

resolvedAs(boat, option) ==
    normaliseBoats(classLookupMaps, <<boat>>) =
        <<[classKey |-> toUpperCase(option.key),
           label |-> option.label,
           sailNumber |-> trim(orEmpty(boat, "sailNumber"))]>>

\* C20: a roster boat whose class text equals the key of a reference option
\* after trimming and upper-casing resolves to an option with that key;
\* when no key equals it and a label does, it resolves to an option with
\* that label; the entry takes the option's upper-cased key as classKey and
\* the option's label as label.
C20_KeyMatchBeforeLabelMatch ==
    \A boat \in rosterBoats :
        ~classless(boat) =>
            /\ optionsWithKey(canonicalText(boat)) # {} =>
                   \E i \in optionsWithKey(canonicalText(boat)) :
                       resolvedAs(boat, classOptions[i])
            /\ (/\ optionsWithKey(canonicalText(boat)) = {}
                /\ optionsWithLabel(canonicalText(boat)) # {}) =>
                   \E i \in optionsWithLabel(canonicalText(boat)) :
                       resolvedAs(boat, classOptions[i])

\* The index holds a boat whose class text is the key of one option and the
\* label of another, under the key's option, and a boat resolved by label.
C20_Witness ==
    /\ \E boat \in rosterBoats :
           \E i \in optionsWithKey(canonicalText(boat)) :
               /\ optionsWithLabel(canonicalText(boat)) \ {i} # {}
               /\ \E name \in DOMAIN rosterNameBoatMap :
                      \E n \in DOMAIN rosterNameBoatMap[name] :
                          /\ rosterNameBoatMap[name][n].classKey =
                                 toUpperCase(classOptions[i].key)
                          /\ rosterNameBoatMap[name][n].label =
                                 classOptions[i].label
    /\ \E boat \in rosterBoats :
           /\ ~classless(boat)
           /\ optionsWithKey(canonicalText(boat)) = {}
           /\ optionsWithLabel(canonicalText(boat)) # {}

-----------------------------------------------------------------------------
(* ProfilePage: callbacks and handlers *)

\* setDateOfBirth(""), setGender(""), setBoats([generateBoat()]),
\* setProfileLoaded(false), setProfileSchemaIssue(null)
resetProfileState ==
    /\ dateOfBirth' = <<>>
    /\ gender' = <<>>
    /\ profilePageBoats' = <<generateBoat(1)>>
    /\ profileLoaded' = FALSE
    /\ profileSchemaIssue' = Null
    /\ UNCHANGED <<profileMessage, profileError, profileBusy, lastUpsert>>

\* fetchProfile up to its first await
fetchProfileStarted ==
    /\ profileBusy' = TRUE
    /\ profileError' = Null
    /\ profileSchemaIssue' = Null
    /\ UNCHANGED <<dateOfBirth, gender, profilePageBoats, profileMessage,
                   profileLoaded, lastUpsert>>

\* supabase.auth.getSession().then(...) of the mount effect
GetSessionSettled(dataSession) ==
    /\ inFlight.getSession
    /\ session' = dataSession
    /\ IF dataSession # Null
       THEN /\ requestsInFlight < MaxInFlight
            /\ fetchProfileStarted
            /\ inFlight' = [inFlight EXCEPT !.getSession = FALSE,
                                            !.fetchProfile = @ + 1]
       ELSE /\ resetProfileState
            /\ inFlight' = [inFlight EXCEPT !.getSession = FALSE]
    /\ UNCHANGED <<homeVars, seriesVars, portalVars>>

\* The onAuthStateChange listener: a sign-in, a token refresh or the
\* initial-session event delivers the session, handleSignOut's
\* supabase.auth.signOut() delivers null.
AuthStateChange(newSession) ==
    /\ session' = newSession
    /\ IF newSession # Null
       THEN /\ requestsInFlight < MaxInFlight
            /\ fetchProfileStarted
            /\ inFlight' = [inFlight EXCEPT !.fetchProfile = @ + 1]
       ELSE /\ resetProfileState
            /\ UNCHANGED inFlight
    /\ UNCHANGED <<homeVars, seriesVars, portalVars>>

\* extractSupabaseMessage: (error.message ?? "").trim() || null
extractSupabaseMessage(error) == IF error = "" THEN Null ELSE error

\* fetchProfile from the answer of the store to its end; the fallback
\* select changes no state before it settles.
FetchProfileSettled(response) ==
    LET usesFallback == "error" \in DOMAIN response /\ response.status = 400
        final == IF usesFallback THEN response.fallback ELSE response
        failed == "error" \in DOMAIN final
        schemaFlagged == usesFallback /\ (~failed \/ final.status = 406)
        throws == failed /\ final.status # 406
        profileDobRaw == IF dataField(final, "date_of_birth") # NullString
                         THEN dataField(final, "date_of_birth")
                         ELSE dataField(final, "dateOfBirth")
        profileGender == normaliseGenderValue(dataField(final, "gender"))
        message == extractSupabaseMessage(final.error)
        finalMessage == IF message # Null /\ mentionsColumn(message)
                        THEN PROFILE_MIGRATION_MESSAGE ELSE message
    IN  /\ inFlight.fetchProfile > 0
        /\ inFlight' = [inFlight EXCEPT !.fetchProfile = @ - 1]
        /\ IF throws
           THEN /\ profileError' = IF finalMessage # Null THEN finalMessage
                                   ELSE "Unable to load profile data."
                /\ profileSchemaIssue' =
                       IF finalMessage = PROFILE_MIGRATION_MESSAGE
                       THEN PROFILE_MIGRATION_MESSAGE
                       ELSE profileSchemaIssue
                /\ UNCHANGED <<dateOfBirth, gender, profilePageBoats>>
           ELSE /\ profileError' = IF schemaFlagged
                                   THEN PROFILE_MIGRATION_MESSAGE
                                   ELSE profileError
                /\ profileSchemaIssue' = IF schemaFlagged
                                         THEN PROFILE_MIGRATION_MESSAGE
                                         ELSE profileSchemaIssue
                /\ dateOfBirth' = normaliseDateForInput(profileDobRaw)
                /\ gender' = profileGender
                /\ profilePageBoats' = boatEntriesOf(final)
        /\ profileBusy' = FALSE
        /\ profileLoaded' = TRUE
        /\ UNCHANGED <<session, profileMessage, lastUpsert>>
        /\ UNCHANGED <<homeVars, seriesVars, portalVars>>

\* The form is rendered for a session; its inputs are disabled while
\* profileBusy.
SetDateOfBirth(value) ==
    /\ session # Null
    /\ ~profileBusy
    /\ dateOfBirth' = value
    /\ UNCHANGED <<session, gender, profilePageBoats, profileMessage,
                   profileError, profileBusy, profileLoaded,
                   profileSchemaIssue, inFlight, lastUpsert>>
    /\ UNCHANGED <<homeVars, seriesVars, portalVars>>

SetGender(value) ==
    /\ session # Null
    /\ ~profileBusy
    /\ gender' = normaliseGenderValue(value)
    /\ UNCHANGED <<session, dateOfBirth, profilePageBoats, profileMessage,
                   profileError, profileBusy, profileLoaded,
                   profileSchemaIssue, inFlight, lastUpsert>>
    /\ UNCHANGED <<homeVars, seriesVars, portalVars>>

\* handleProfileSubmit up to its await; the submit button is disabled while
\* profileBusy || !profileLoaded || !!profileSchemaIssue.
HandleProfileSubmit ==
    LET cleanedBoats == cleanedBoatsOf(profilePageBoats)
        dobValue == trim(dateOfBirth)
        badFormat == dobValue # <<>>
                         /\ ~(startsWithIsoDate(dobValue) /\ Len(dobValue) = 10)
        inFuture == dobValue # <<>> /\ ~badFormat
                        /\ isoDateGreater(dobValue, todayIsoDate)
        dobToPersist == IF dobValue # <<>> THEN dobValue ELSE NullString
        rejection ==
            IF badFormat THEN "Date of birth must be in YYYY-MM-DD format."
            ELSE IF inFuture THEN "Date of birth cannot be in the future."
            ELSE IF profileSchemaIssue # Null THEN profileSchemaIssue
            ELSE IF gender = <<>> THEN "Please select a gender."
            ELSE Null
    IN  /\ session # Null
        /\ ~profileBusy /\ profileLoaded /\ profileSchemaIssue = Null
        /\ profileMessage' = Null
        /\ IF rejection # Null
           THEN /\ profileError' = rejection
                /\ UNCHANGED <<profileBusy, inFlight, lastUpsert>>
           ELSE /\ requestsInFlight < MaxInFlight
                /\ profileError' = Null
                /\ profileBusy' = TRUE
                /\ inFlight' = [inFlight EXCEPT !.upsert = @ + 1]
                /\ lastUpsert' = <<[id |-> session,
                                    date_of_birth |-> dobToPersist,
                                    gender |-> gender,
                                    boats |-> cleanedBoats]>>
        /\ UNCHANGED <<session, dateOfBirth, gender, profilePageBoats,
                       profileLoaded, profileSchemaIssue>>
        /\ UNCHANGED <<homeVars, seriesVars, portalVars>>

\* handleProfileSubmit from the answer of the store to its end
UpsertSettled(response) ==
    LET failed == "error" \in DOMAIN response
        message == IF failed THEN extractSupabaseMessage(response.error)
                   ELSE Null
        migrationMatch == message # Null /\ mentionsColumn(message)
    IN  /\ inFlight.upsert > 0
        /\ inFlight' = [inFlight EXCEPT !.upsert = @ - 1]
        /\ IF failed
           THEN /\ profileSchemaIssue' = IF migrationMatch
                                         THEN PROFILE_MIGRATION_MESSAGE
                                         ELSE profileSchemaIssue
                /\ profileError' =
                       IF migrationMatch THEN PROFILE_MIGRATION_MESSAGE
                       ELSE IF message # Null THEN message
                       ELSE "Unable to save profile. Please try again."
                /\ UNCHANGED profileMessage
           ELSE /\ profileMessage' = "Profile saved."
                /\ UNCHANGED <<profileError, profileSchemaIssue>>
        /\ profileBusy' = FALSE
        /\ UNCHANGED <<session, dateOfBirth, gender, profilePageBoats,
                       profileLoaded, lastUpsert>>
        /\ UNCHANGED <<homeVars, seriesVars, portalVars>>

InitProfile ==
    /\ classOptions = <<>>
    /\ rosterProfiles = <<>>
    /\ classLookupMaps = buildClassLookupMaps(<<>>)
    /\ rosterNameBoatMap = <<>>
    /\ rows = blankRows
    /\ results = Null
    /\ errorMessage = Null
    /\ selectedScheduleId = <<>>
    /\ isScoring = FALSE
    /\ scoreRequest = <<>>
    /\ lastOp = [op |-> "mount"]
    /\ call = NoCall
    /\ ProfilePageInit
    /\ SeriesPageInit
    /\ PortalPageInit

\* The boat rows of the profile form grow to at most MaxBoats rows.
MaxBoats == 2

\* The reference feed of the profile page at the time of an edit: not yet
\* loaded (no option), or the Laser option.
ProfileReferencePool == {<<>>, refLaser}

BoatFields == {"className", "sailNumber"}

BoatFieldValues(field) ==
    IF field = "className" THEN {sLaserLower} ELSE {s9}

\* classLookup[canonical] of ProfilePage: every option is entered under its
\* trimmed upper-cased key and label, a later option replacing an earlier.
classLookupMatches(options, canonical) ==
    {i \in DOMAIN options :
        \/ toUpperCase(trim(options[i].key)) = canonical
        \/ toUpperCase(trim(options[i].label)) = canonical}

normaliseBoatClassInput(options, value) ==
    LET trimmed == trim(value)
        canonical == toUpperCase(trimmed)
        matches == classLookupMatches(options, canonical)
    IN  IF trimmed = <<>> THEN value
        ELSE IF matches # {}
        THEN options[CHOOSE i \in matches : \A j \in matches : j <= i].label
        ELSE value

profileBoatIds == {profilePageBoats[n].id : n \in DOMAIN profilePageBoats}

\* removeBoat leaving the form without a row when its only row is removed.
removeBoatFrom(current, boatId) ==
    SelectSeq(current, LAMBDA boat : boat.id # boatId)

\* The updater of removeBoat.
removeBoat(current, boatId) ==
    IF Len(current) <= 1 THEN <<generateBoat(1)>>
    ELSE SelectSeq(current, LAMBDA boat : boat.id # boatId)

\* The form is rendered for a signed-in member and its boat inputs and
\* buttons are disabled while profileBusy.
HandleBoatChange(boatId, field, rawValue, options) ==
    /\ session # Null
    /\ ~profileBusy
    /\ LET value == IF field = "className"
                    THEN normaliseBoatClassInput(options, rawValue)
                    ELSE rawValue
       IN  profilePageBoats' =
               [n \in DOMAIN profilePageBoats |->
                   IF profilePageBoats[n].id = boatId
                   THEN [profilePageBoats[n] EXCEPT ![field] = value]
                   ELSE profilePageBoats[n]]
    /\ UNCHANGED <<session, dateOfBirth, gender, profileMessage,
                   profileError, profileBusy, profileLoaded,
                   profileSchemaIssue, inFlight, lastUpsert>>
    /\ UNCHANGED <<homeVars, seriesVars, portalVars>>

AddBoat ==
    /\ session # Null
    /\ ~profileBusy
    /\ Len(profilePageBoats) < MaxBoats
    /\ profilePageBoats' =
           Append(profilePageBoats, generateBoat(createId(profileBoatIds)))
    /\ UNCHANGED <<session, dateOfBirth, gender, profileMessage,
                   profileError, profileBusy, profileLoaded,
                   profileSchemaIssue, inFlight, lastUpsert>>
    /\ UNCHANGED <<homeVars, seriesVars, portalVars>>

RemoveBoat(boatId) ==
    /\ session # Null
    /\ ~profileBusy
    /\ profilePageBoats' = removeBoat(profilePageBoats, boatId)
    /\ UNCHANGED <<session, dateOfBirth, gender, profileMessage,
                   profileError, profileBusy, profileLoaded,
                   profileSchemaIssue, inFlight, lastUpsert>>
    /\ UNCHANGED <<homeVars, seriesVars, portalVars>>

NextProfile ==
    \/ \E dataSession \in {Null, UserId} : GetSessionSettled(dataSession)
    \/ \E newSession \in {Null, UserId} : AuthStateChange(newSession)
    \/ \E response \in ProfileResponses : FetchProfileSettled(response)
    \/ \E value \in DateOfBirthInputs : SetDateOfBirth(value)
    \/ \E value \in GenderInputs : SetGender(value)
    \/ HandleProfileSubmit
    \/ \E response \in UpsertResponses : UpsertSettled(response)

SpecProfile == InitProfile /\ [][NextProfile]_vars

-----------------------------------------------------------------------------
(* Properties of ProfilePage *)

\* C13: the gender state holds "", "female" or "male" and nothing else,
\* and every record sent to the store by upsert carries the gender
\* "female" or "male" (the gender state at the moment of the submit, so no
\* upsert is issued while it is empty).
C13_GenderFemaleOrMale ==
    /\ gender \in {<<>>, sFemale, sMale}
    /\ \A n \in DOMAIN lastUpsert : lastUpsert[n].gender \in {sFemale, sMale}

\* A record was sent after a profile load.
C13_Witness ==
    /\ profileLoaded
    /\ lastUpsert # <<>>
    /\ lastUpsert[1].gender = sMale
    /\ lastUpsert[1].boats # <<>>

profileStateReset ==
    /\ session = Null
    /\ ~profileLoaded
    /\ dateOfBirth = <<>>
    /\ gender = <<>>
    /\ profilePageBoats = <<generateBoat(1)>>

\* C17 as stated: once the sign-out has reset the profile state, every step
\* that leaves the session null leaves the state reset: date of birth and
\* gender empty, a single blank boat, profileLoaded false.
C17_SignedOutStateStaysReset ==
    [][(profileStateReset /\ session' = Null) => profileStateReset']_vars

\* C18 as stated: profileBusy is true in every state in which a profile
\* fetch or a profile save is in flight.
C18_BusyWhileRequestInFlight ==
    requestsInFlight > 0 => profileBusy

-----------------------------------------------------------------------------
(* SeriesAdminPage: handlers *)

resetEditState ==
    /\ editingId' = Null
    /\ editForm' = blankEditForm
    /\ editError' = Null
    /\ editSuccess' = NullString
    /\ isSavingEdit' = FALSE

\* The Edit button of a row that is not being edited.
StartEdit(record) ==
    /\ editingId # record.id
    /\ editSession < MaxEditSessions
    /\ editingId' = record.id
    /\ editForm' = [title |-> record.title,
                    startDate |-> toDateInputValue(orEmpty(record, "startDate")),
                    endDate |-> toDateInputValue(orEmpty(record, "endDate"))]
    /\ editError' = Null
    /\ editSuccess' = NullString
    /\ editSession' = editSession + 1
    /\ UNCHANGED <<isSavingEdit, patchesInFlight, resetTimers>>
    /\ UNCHANGED <<homeVars, profileVars, portalVars>>

\* The inputs of the row being edited.
HandleEditChange(key, value) ==
    /\ editingId # Null
    /\ editForm' = [editForm EXCEPT ![key] = value]
    /\ editError' = Null
    /\ editSuccess' = NullString
    /\ UNCHANGED <<editingId, isSavingEdit, patchesInFlight, resetTimers,
                   editSession>>
    /\ UNCHANGED <<homeVars, profileVars, portalVars>>

\* The Cancel button: onClick={resetEditState}
CancelEdit ==
    /\ editingId # Null
    /\ resetEditState
    /\ UNCHANGED <<patchesInFlight, resetTimers, editSession>>
    /\ UNCHANGED <<homeVars, profileVars, portalVars>>

\* handleEditSubmit up to its await; the Save button is disabled while
\* isSavingEdit.
HandleEditSubmit ==
    LET trimmedTitle == trim(editForm.title)
    IN  /\ editingId # Null
        /\ ~isSavingEdit
        /\ editSuccess' = NullString
        /\ IF trimmedTitle = <<>>
           THEN /\ editError' = "Series title is required."
                /\ UNCHANGED <<isSavingEdit, patchesInFlight>>
           ELSE /\ editError' = Null
                /\ isSavingEdit' = TRUE
                /\ patchesInFlight' = patchesInFlight \cup
                       {[id |-> editingId, session |-> editSession,
                         title |-> trimmedTitle,
                         startDate |-> editForm.startDate,
                         endDate |-> editForm.endDate]}
        /\ UNCHANGED <<editingId, editForm, resetTimers, editSession>>
        /\ UNCHANGED <<homeVars, profileVars, portalVars>>

\* handleEditSubmit from the answer to the PATCH to its end; mutate changes
\* no state of the edit session before it settles.
PatchSettled(request, ok) ==
    /\ request \in patchesInFlight
    /\ patchesInFlight' = patchesInFlight \ {request}
    /\ IF ok
       THEN /\ editSuccess' = sSaved \o request.title \o <<".">>
            /\ resetTimers' = resetTimers \cup {request.session}
            /\ UNCHANGED <<editError, isSavingEdit>>
       ELSE /\ editError' = "Failed to update series"
            /\ isSavingEdit' = FALSE
            /\ UNCHANGED <<editSuccess, resetTimers>>
    /\ UNCHANGED <<editingId, editForm, editSession>>
    /\ UNCHANGED <<homeVars, profileVars, portalVars>>

\* setTimeout(() => { resetEditState(); }, 1500) fires
ResetTimerFired(timer) ==
    /\ timer \in resetTimers
    /\ resetTimers' = resetTimers \ {timer}
    /\ resetEditState
    /\ UNCHANGED <<patchesInFlight, editSession>>
    /\ UNCHANGED <<homeVars, profileVars, portalVars>>

InitSeries == InitProfile

NextSeries ==
    \/ \E record \in SeriesRecords : StartEdit(record)
    \/ \E value \in EditTitles : HandleEditChange("title", value)
    \/ CancelEdit
    \/ HandleEditSubmit
    \/ \E request \in patchesInFlight, ok \in BOOLEAN : PatchSettled(request, ok)
    \/ \E timer \in resetTimers : ResetTimerFired(timer)

SpecSeries == InitSeries /\ [][NextSeries]_vars

-----------------------------------------------------------------------------
(* Properties of SeriesAdminPage *)

\* A save of the edit session that is open is in flight or has succeeded.
saveOfOpenSessionUnderWay ==
    \/ \E request \in patchesInFlight : request.session = editSession
    \/ editSession \in resetTimers

\* C16 as stated: an edit session stays open with its editingId and form
\* contents until the user cancels it or a save of that same session
\* completes: a delayed reset that belongs to the save of another session
\* leaves the open session as it is, and the Save button of an open session
\* is disabled only while a save of that session is under way.
C16_EditSessionSurvivesOtherSaves ==
    [][/\ (/\ editingId # Null
           /\ \E timer \in resetTimers :
                  timer # editSession /\ resetTimers' = resetTimers \ {timer})
          => (editingId' = editingId /\ editForm' = editForm)
       /\ (editingId' # Null /\ isSavingEdit') => saveOfOpenSessionUnderWay']_vars

-----------------------------------------------------------------------------
(* Spelling of the names of a pair *)

\* Spellings of a name that are equal to it after trimming and case-folding.
spellingsOf(name) ==
    {name, toUpperCase(name), <<" ">> \o toLowerCase(name) \o <<" ", " ">>}

resultFor(fn, helmName, crewName) ==
    CASE fn = "getBoatsForNames" -> getBoatsForNames(helmName, crewName)
      [] fn = "getBoatLookupForNames" -> getBoatLookupForNames(helmName, crewName)
      [] fn = "getClassDropdownOptions" -> getClassDropdownOptions(helmName, crewName)

\* C21: the boat list, the boat lookup and the partition returned for a
\* name pair are returned as well for every pair whose names differ from it
\* only in letter case and in leading and trailing whitespace.
C21_SpellingOfNamesIrrelevant ==
    call.fn # "none" =>
        \A helmName \in spellingsOf(call.helmName) :
            \A crewName \in spellingsOf(call.crewName) :
                /\ nameKey(helmName) = nameKey(call.helmName)
                /\ nameKey(crewName) = nameKey(call.crewName)
                /\ resultFor(call.fn, helmName, crewName) = call.result

\* The helm was asked for as " lee", the roster spells the name otherwise,
\* and boats came back.
C21_Witness ==
    /\ call.fn = "getBoatsForNames"
    /\ call.helmName = sLeeQuery
    /\ Len(call.result) >= 1
    /\ \A p \in DOMAIN rosterProfiles :
           /\ orEmpty(rosterProfiles[p], "helm") # sLeeQuery
           /\ orEmpty(rosterProfiles[p], "crew") # sLeeQuery

-----------------------------------------------------------------------------
(* Order of the name suggestions *)

\* a is not after b in alphabetical order when letter case is ignored: a
\* is a prefix of b, or at the first position where they differ a has the
\* earlier character.
notAfterIgnoringCase(a, b) ==
    \/ /\ Len(a) <= Len(b)
       /\ \A i \in DOMAIN a : toLowerCaseChar(a[i]) = toLowerCaseChar(b[i])
    \/ \E i \in DOMAIN a \cap DOMAIN b :
           /\ \A j \in 1..(i - 1) : toLowerCaseChar(a[j]) = toLowerCaseChar(b[j])
           /\ collationRank(a[i]) < collationRank(b[i])

isPermutationOf(names, others) ==
    /\ Len(names) = Len(others)
    /\ \A i \in DOMAIN others :
           Cardinality({j \in DOMAIN names : names[j] = others[i]})
               = Cardinality({j \in DOMAIN others : others[j] = others[i]})

alphabetical(names) ==
    \A i \in 1..(Len(names) - 1) : notAfterIgnoringCase(names[i], names[i + 1])

\* C22: the name-suggestion list of the race-entry page and of the sign-on
\* portal is in alphabetical order ignoring case, every adjacent pair in
\* non-decreasing order, and is a permutation of the de-duplicated names.
C22_SuggestionsAlphabetical ==
    /\ alphabetical(rosterNameOptions)
    /\ isPermutationOf(rosterNameOptions,
                       collectNames(rosterProfiles, 1, <<{}, <<>>>>)[2])
    /\ alphabetical(portalRosterNameOptions)
    /\ isPermutationOf(portalRosterNameOptions,
                       portalCollectNames(rosterProfiles, 1, 1, <<{}, <<>>>>)[2])

\* Three names that the roster holds in another order than the alphabet,
\* one of them in lower case.
C22_Witness ==
    /\ Len(rosterNameOptions) >= 3
    /\ rosterNameOptions # collectNames(rosterProfiles, 1, <<{}, <<>>>>)[2]
    /\ \E i \in DOMAIN rosterNameOptions :
           rosterNameOptions[i] = toLowerCase(rosterNameOptions[i])

-----------------------------------------------------------------------------
(* The boat-class field of the entry rows *)

\* C23: the boat-class field of every entry row equals its own
\* upper-casing, from the blank rows the grid starts with through every
\* row edit, added row, removed row and reset; a class edit stores the
\* upper-cased value.
C23_DinghyStoredUpperCased ==
    /\ \A n \in DOMAIN rows : rows[n].dinghy = toUpperCase(rows[n].dinghy)
    /\ (/\ "key" \in DOMAIN lastOp
        /\ lastOp.op = "handleRowChange"
        /\ lastOp.key = "dinghy")
           => rowOf(rows, lastOp.id).dinghy = toUpperCase(lastOp.value)

\* A class typed in mixed case has just been stored.
C23_Witness ==
    /\ "key" \in DOMAIN lastOp
    /\ lastOp.op = "handleRowChange"
    /\ lastOp.key = "dinghy"
    /\ lastOp.value = sLaser
    /\ lastOp.value # toUpperCase(lastOp.value)
    /\ rowOf(rows, lastOp.id).dinghy = sLASER

-----------------------------------------------------------------------------
(* The class keys of the roster boat index *)

indexBoats ==
    UNION {{rosterNameBoatMap[name][i] : i \in DOMAIN rosterNameBoatMap[name]} :
           name \in DOMAIN rosterNameBoatMap}

optionKeys ==
    {toUpperCase(orEmpty(classOptions[i], "key")) : i \in DOMAIN classOptions}

rawClassKeys ==
    {toUpperCase(trim(orEmpty(boat, "className"))) : boat \in rosterBoats}

\* C24: every boat held in the roster boat index has a non-empty classKey
\* that equals its own upper-casing.
C24_ClassKeyNonEmptyUpperCase ==
    \A boat \in indexBoats :
        /\ boat.classKey # <<>>
        /\ boat.classKey = toUpperCase(boat.classKey)

\* C24 as the code has it: the classKey of every boat of the index equals
\* its own upper-casing and is the upper-cased key of a reference option or
\* the trimmed upper-cased raw class name; it is empty only when the boat
\* was resolved, by its label, to an option whose key is the empty string.
C24_ClassKeyUpperCaseOfKeyOrRawName ==
    ~pageCrashed =>
        \A boat \in indexBoats :
            /\ boat.classKey = toUpperCase(boat.classKey)
            /\ boat.classKey \in optionKeys \cup rawClassKeys
            /\ boat.classKey = <<>> =>
                   \E i \in DOMAIN classOptions :
                       /\ classOptions[i].key = <<>>
                       /\ toUpperCase(trim(classOptions[i].label))
                              \in rawClassKeys

\* The index holds a boat resolved to an option with an empty key next to
\* a boat whose class matched no option.
C24_Witness ==
    /\ ~pageCrashed
    /\ \E boat \in indexBoats : boat.classKey = <<>>
    /\ \E boat \in indexBoats :
           boat.classKey # <<>> /\ boat.classKey \notin optionKeys

-----------------------------------------------------------------------------
(* What de-duplication drops *)

pairsOf(list) ==
    {<<list[i].classKey, list[i].sailNumber>> : i \in DOMAIN list}

\* C25: de-duplication drops only true duplicates.  Every boat of a profile
\* that names a class has its (classKey, sailNumber) in the profile's
\* normalised list; every normalised boat of a profile has its pair in the
\* index list of the profile's helm and of its crew; every boat of the index
\* lists of a name pair has its pair in the combined list.  This holds also
\* for class names and sail numbers that contain "|".
C25_OnlyTrueDuplicatesDropped ==
    /\ \A p \in DOMAIN rosterProfiles :
           LET profile == rosterProfiles[p]
               boats == orNone(profile, "boats")
           IN  /\ \A b \in DOMAIN boats :
                      pairsOf(normaliseBoats(classLookupMaps, <<boats[b]>>))
                          \subseteq pairsOf(normalisedBoatsOf(profile))
               /\ \A name \in {orEmpty(profile, "helm"), orEmpty(profile, "crew")} :
                      nameKey(name) # <<>> =>
                          pairsOf(normalisedBoatsOf(profile))
                              \subseteq pairsOf(indexListOf(name))
    /\ call.fn = "getBoatsForNames" =>
           pairsOf(indexListOf(call.helmName)) \cup pairsOf(indexListOf(call.crewName))
               \subseteq pairsOf(call.result)

-----------------------------------------------------------------------------
(* What a row edit leaves alone *)

\* The fields in which two versions of a row differ.
changedFields(before, after) ==
    {field \in DOMAIN before : after[field] # before[field]}

\* C26: handleRowChange(id, key, value) changes only the row whose id is
\* id: number and order of the rows are kept and every other row is
\* unchanged; in the target row only the field key changes, and for helm,
\* crew and dinghy possibly sailNumber as well.
C26_RowEditChangesOnlyItsRow ==
    [][lastOp'.op = "handleRowChange" =>
           /\ Len(rows') = Len(rows)
           /\ \A n \in DOMAIN rows :
                  /\ rows'[n].id = rows[n].id
                  /\ rows[n].id # lastOp'.id => rows'[n] = rows[n]
                  /\ rows[n].id = lastOp'.id =>
                         changedFields(rows[n], rows'[n]) \subseteq
                             IF lastOp'.key \in {"helm", "crew", "dinghy"}
                             THEN {lastOp'.key, "sailNumber"}
                             ELSE {lastOp'.key}]_vars

\* A helm edit has just filled in the sail number of its row while the
\* other row holds a class and no sail number.
C26_Witness ==
    /\ lastOp.op = "handleRowChange"
    /\ lastOp.key = "helm"
    /\ Len(rows) = 2
    /\ \E n \in DOMAIN rows :
           /\ rows[n].id = lastOp.id
           /\ rows[n].helm = lastOp.value
           /\ rows[n].sailNumber = s12345
    /\ \E n \in DOMAIN rows :
           /\ rows[n].id # lastOp.id
           /\ rows[n].dinghy = sLASER
           /\ rows[n].sailNumber = <<>>

-----------------------------------------------------------------------------
(* Scoring the race: handleScore and the answer of POST /score *)

\* JSON.stringify(parseInt(text, 10)) for a text without sign: the leading
\* digits without leading zeros, and null for NaN.
RECURSIVE leadingDigits(_)
leadingDigits(text) ==
    IF text = <<>> \/ Head(text) \notin Digits THEN <<>>
    ELSE <<Head(text)>> \o leadingDigits(Tail(text))

RECURSIVE withoutLeadingZeros(_)
withoutLeadingZeros(digits) ==
    IF Len(digits) > 1 /\ Head(digits) = "0"
    THEN withoutLeadingZeros(Tail(digits))
    ELSE digits

parseInt(text) ==
    LET digits == leadingDigits(trimStart(text))
    IN  IF digits = <<>> THEN NullString ELSE withoutLeadingZeros(digits)

\* The filter of payload.entries: a row with any of the six fields filled.
rowFilled(row) ==
    \/ row.helm # <<>>
    \/ row.crew # <<>>
    \/ row.dinghy # <<>>
    \/ row.sailNumber # <<>>
    \/ row.laps # <<>>
    \/ row.timeSeconds # <<>>

\* The map of payload.entries; the rows of the grid carry no entryId.
entryOf(row) ==
    LET sailNumber == trim(row.sailNumber)
    IN  [entryId |-> NullString,
         helm |-> trim(row.helm),
         crew |-> trim(row.crew),
         dinghy |-> toUpperCase(trim(row.dinghy)),
         sailNumber |-> IF sailNumber # <<>> THEN toUpperCase(sailNumber)
                        ELSE NullString,
         personal |-> IF row.personal # <<>> THEN parseInt(row.personal)
                      ELSE s0,
         laps |-> IF row.laps # <<>> THEN parseInt(row.laps) ELSE NullString,
         timeSeconds |-> IF row.timeSeconds # <<>>
                         THEN parseInt(row.timeSeconds) ELSE NullString,
         finCode |-> IF row.finCode # <<>> THEN toUpperCase(row.finCode)
                     ELSE NullString]

entriesOf(list) ==
    LET filled == SelectSeq(list, rowFilled)
    IN  [n \in DOMAIN filled |-> entryOf(filled[n])]

\* What can come back from fetch: it rejects, or it resolves to a response
\* with a status and a body.  The body is no JSON text, the JSON null, or a
\* JSON object; an error object may carry a detail.
ScoredBody == "ScoreResponse"

FetchFailed == "Failed to fetch"

ScoreOutcomes ==
    {[kind |-> "rejected", message |-> FetchFailed],
     [kind |-> "response", ok |-> TRUE, json |-> "object", body |-> ScoredBody],
     [kind |-> "response", ok |-> TRUE, json |-> "invalid"],
     [kind |-> "response", ok |-> FALSE, json |-> "invalid"],
     [kind |-> "response", ok |-> FALSE, json |-> "null"],
     [kind |-> "response", ok |-> FALSE, json |-> "object"],
     [kind |-> "response", ok |-> FALSE, json |-> "object",
      detail |-> "Invalid entries"],
     [kind |-> "response", ok |-> FALSE, json |-> "object", detail |-> ""]}

\* The message of the error the try block ends with, or Null when it runs
\* to its end.
thrownMessage(outcome) ==
    IF outcome.kind = "rejected" THEN outcome.message
    ELSE IF ~outcome.ok THEN
        IF outcome.json = "null"
        THEN "Cannot read properties of null (reading 'detail')"
        ELSE IF outcome.json = "object" /\ "detail" \in DOMAIN outcome
        THEN outcome.detail
        ELSE "Scoring failed"
    ELSE IF outcome.json = "invalid" THEN "Unexpected end of JSON input"
    ELSE Null

HandleScore ==
    /\ ~pageCrashed
    /\ ~isScoring
    /\ isScoring' = TRUE
    /\ errorMessage' = Null
    /\ scoreRequest' = <<[entries |-> entriesOf(rows)]>>
    /\ lastOp' = [op |-> "handleScore"]
    /\ UNCHANGED <<classOptions, rosterProfiles, classLookupMaps,
                   rosterNameBoatMap, rows, results, selectedScheduleId, call>>
    /\ UNCHANGED <<profileVars, seriesVars, portalVars>>

ScoreSettled(outcome) ==
    /\ scoreRequest # <<>>
    /\ scoreRequest' = <<>>
    /\ IF thrownMessage(outcome) = Null
       THEN /\ results' = outcome.body
            /\ UNCHANGED errorMessage
       ELSE /\ results' = Null
            /\ errorMessage' = thrownMessage(outcome)
    /\ isScoring' = FALSE
    /\ lastOp' = [op |-> "scoreSettled", outcome |-> outcome]
    /\ UNCHANGED <<classOptions, rosterProfiles, classLookupMaps,
                   rosterNameBoatMap, rows, selectedScheduleId, call>>
    /\ UNCHANGED <<profileVars, seriesVars, portalVars>>

ScoreEditKeys == {"helm", "dinghy"}

NextScore ==
    \/ \E id \in rowIds, key \in ScoreEditKeys :
           \E value \in EditValues(key) : HandleRowChange(id, key, value)
    \/ \E id \in rowIds : RemoveRow(id)
    \/ AddRow
    \/ Reset
    \/ HandleScore
    \/ \E outcome \in ScoreOutcomes : ScoreSettled(outcome)

SpecScore == Init /\ [][NextScore]_vars

\* The request failed: fetch rejected, the response was not OK, or the
\* body of an OK response could not be read.
scoreFailed(outcome) ==
    \/ outcome.kind = "rejected"
    \/ ~outcome.ok
    \/ outcome.json = "invalid"

\* C27: when handleScore completes, isScoring is false in every outcome;
\* if the request threw or the response was not OK, results is null and
\* errorMessage is a non-empty message; if the response was OK, results
\* holds the scored response and errorMessage is null.
C27_ScoreOutcomeReported ==
    lastOp.op = "scoreSettled" =>
        /\ isScoring = FALSE
        /\ IF scoreFailed(lastOp.outcome)
           THEN /\ results = Null
                /\ errorMessage # Null
                /\ errorMessage # ""
           ELSE /\ results = lastOp.outcome.body
                /\ errorMessage = Null

-----------------------------------------------------------------------------
(* The boat rows of the profile form *)

NextBoats ==
    \/ \E dataSession \in {Null, UserId} : GetSessionSettled(dataSession)
    \/ \E newSession \in {Null, UserId} : AuthStateChange(newSession)
    \/ \E response \in ProfileResponses : FetchProfileSettled(response)
    \/ \E boatId \in profileBoatIds, field \in BoatFields :
           \E rawValue \in BoatFieldValues(field) :
               \E options \in ProfileReferencePool :
                   HandleBoatChange(boatId, field, rawValue, options)
    \/ AddBoat
    \/ \E boatId \in profileBoatIds : RemoveBoat(boatId)

SpecBoats == InitProfile /\ [][NextBoats]_vars

\* C28: the boats list of the profile form is never empty, through every
\* addBoat, removeBoat, profile load and reset; removing the only row
\* leaves exactly one blank row.
C28_BoatsNeverEmpty ==
    [][/\ Len(profilePageBoats) >= 1
       /\ Len(profilePageBoats') >= 1
       /\ \A boatId \in profileBoatIds :
              (RemoveBoat(boatId) /\ Len(profilePageBoats) = 1) =>
                  /\ Len(profilePageBoats') = 1
                  /\ profilePageBoats'[1].className = <<>>
                  /\ profilePageBoats'[1].sailNumber = <<>>]_vars

\* The form holds one row with a class and a sail number: removing it is
\* the case of the only row.
C28_Witness ==
    /\ session # Null
    /\ ~profileBusy
    /\ Len(profilePageBoats) = 1
    /\ profilePageBoats[1].className = sLaser
    /\ profilePageBoats[1].sailNumber = s9

-----------------------------------------------------------------------------
(* The sign-on portal (PortalPage): helm name and crew fields *)

\* Sign-outs awaited at the same time.
MaxSignOuts == 2

PortalNames == {<<>>, sSam, sLee}

\* addCrewField appending a field whatever the length of the list.
addCrewFieldUncapped(current) == Append(current, <<>>)

\* The updaters of updateCrewMember, addCrewField and removeCrewField;
\* idx of the source counts from 0, an index of the model from 1.
updateCrewMember(current, index, value) ==
    [idx \in DOMAIN current |-> IF idx = index THEN value ELSE current[idx]]

addCrewField(current) ==
    IF Len(current) >= 3 THEN current ELSE Append(current, <<>>)

removeCrewField(current, index) ==
    LET kept == {idx \in DOMAIN current : idx # index}
        nth(n) == CHOOSE idx \in kept :
                      Cardinality({j \in kept : j < idx}) = n - 1
    IN  [n \in 1..Cardinality(kept) |-> current[nth(n)]]

SetHelmName(value) ==
    /\ portalHelmName' = value
    /\ UNCHANGED <<crewInputs, signOutsInFlight>>
    /\ UNCHANGED <<homeVars, profileVars, seriesVars>>

UpdateCrewMember(index, value) ==
    /\ crewInputs' = updateCrewMember(crewInputs, index, value)
    /\ UNCHANGED <<portalHelmName, signOutsInFlight>>
    /\ UNCHANGED <<homeVars, profileVars, seriesVars>>

\* The button is rendered while crewInputs.length < 3; the updater tests
\* the length of the list it is applied to.
AddCrewField ==
    /\ crewInputs' = addCrewField(crewInputs)
    /\ UNCHANGED <<portalHelmName, signOutsInFlight>>
    /\ UNCHANGED <<homeVars, profileVars, seriesVars>>

\* The Remove button of a field is rendered while crewInputs.length > 1.
RemoveCrewField(index) ==
    /\ Len(crewInputs) > 1
    /\ crewInputs' = removeCrewField(crewInputs, index)
    /\ UNCHANGED <<portalHelmName, signOutsInFlight>>
    /\ UNCHANGED <<homeVars, profileVars, seriesVars>>

\* handleSignOut up to its await.
HandleSignOut ==
    /\ signOutsInFlight < MaxSignOuts
    /\ signOutsInFlight' = signOutsInFlight + 1
    /\ UNCHANGED <<portalHelmName, crewInputs>>
    /\ UNCHANGED <<homeVars, profileVars, seriesVars>>

\* handleSignOut after its await; of the five setters the two that write
\* the helm name and the crew fields are modelled.
SignOutSettled ==
    /\ signOutsInFlight > 0
    /\ signOutsInFlight' = signOutsInFlight - 1
    /\ portalHelmName' = <<>>
    /\ crewInputs' = <<<<>>>>
    /\ UNCHANGED <<homeVars, profileVars, seriesVars>>

NextPortal ==
    \/ \E value \in PortalNames : SetHelmName(value)
    \/ \E index \in DOMAIN crewInputs, value \in PortalNames :
           UpdateCrewMember(index, value)
    \/ AddCrewField
    \/ \E index \in DOMAIN crewInputs : RemoveCrewField(index)
    \/ HandleSignOut
    \/ SignOutSettled

SpecPortal == Init /\ [][NextPortal]_vars

\* C29: the portal holds at least 1 and at most 3 crew fields, from the
\* one field it starts with through every addCrewField, updateCrewMember,
\* removeCrewField and sign-out; addCrewField applied to 3 fields returns
\* the list unchanged.
C29_CrewFieldsBetweenOneAndThree ==
    /\ Len(crewInputs) >= 1
    /\ Len(crewInputs) <= 3
    /\ Len(crewInputs) = 3 => addCrewField(crewInputs) = crewInputs

\* Three crew fields, the last one filled in.
C29_Witness ==
    /\ Len(crewInputs) = 3
    /\ crewInputs[3] # <<>>

====
